---- MODULE Spec2Model ----
(***************************************************************************)
(* Sync request planner: PendingRequests of crates/sync                    *)
(* (src/code/crates/sync/src/pending_requests.rs).                         *)
(*                                                                         *)
(* A height is a natural number (Height::as_u64); increment() is +1,       *)
(* increment_by(n) is +n and decrement() is -1, failing at 0.  All heights *)
(* of the model stay far below 2^64, so u64 arithmetic never wraps.        *)
(* A RangeInclusive start..=end is the record [start |-> s, end |-> e].    *)
(***************************************************************************)
EXTENDS Integers, Sequences, FiniteSets, TLC

\* ------------------------------------------------------------------ bounds
\* Heights a caller passes (range bounds of insert, remove_requests_up_to).
MaxHeight == 3
\* Largest initial_height given to new.
MaxInitHeight == 1
\* Largest max_batch_size given to new (0 is given too: new raises it to 1).
MaxBatchSize == 2
\* Number of distinct outbound request ids.
NumRequestIds == 2
\* Longest list of addresses a peer advertises.
MaxAddrs == 2
\* Longest list of addresses of the filtering node.
MaxOwnAddrs == 2
\* Connection ids of the swarm.
NumConnections == 2
\* Largest num_outbound_peers, num_inbound_peers and
\* max_connections_per_peer of a discovery configuration.
MaxOutboundPeers == 1
MaxInboundPeers == 1
MaxConnectionsPerPeer == 1
\* request_max_retries of the configuration of an extending engine.
RequestMaxRetries == 1
\* Periodic ticks stop once this many peers requests have been sent.
MaxRequests == 3

Heights == 0..MaxHeight
RequestIds == 1..NumRequestIds
\* The planner stores a peer id with a request and hands it back on remove; it
\* never reads it.
PeerIds == {"A"}
Ranges == {[start |-> a, end |-> b] : a \in Heights, b \in Heights}
\* A request is for at least one height: the ranges given to insert.
NonEmptyRanges == {r \in Ranges : r.start <= r.end}

\* ----------------------------------------------------------------- helpers
Option_None == [is_some |-> FALSE]
Option_Some(v) == [is_some |-> TRUE, value |-> v]

max(a, b) == IF a >= b THEN a ELSE b

\* RangeInclusive::contains
contains(range, h) == range.start <= h /\ h <= range.end

\* --------------------------------------------------------------- the state
VARIABLES
    requests,              \* BTreeMap: request id -> [range, peer_id]
    max_batch_size,
    next_uncovered_range,
    last_validated_height,
    panicked,              \* an assert! of the planner has failed
    \* One use of the address filter (addr_filter.rs):
    input_addrs,           \* addrs: the addresses a peer advertises
    input_own_addrs,       \* own_addrs: the addresses of the filtering node
    filtered,              \* what filter_addresses_with_relay returned
    reachable,             \* what filter_reachable_addresses returned
    \* The discovery engine:
    discovery,             \* the Discovery value
    the_swarm              \* the swarm its handlers are given

planner_vars == <<requests, max_batch_size, next_uncovered_range,
                  last_validated_height, panicked>>

filter_vars == <<input_addrs, input_own_addrs, filtered, reachable>>

discovery_vars == <<discovery, the_swarm>>

vars == <<planner_vars, filter_vars, discovery_vars>>

\* No address is being filtered (the state of the filter's variables in the
\* specifications of the other parts).
FilterIdle ==
    /\ input_addrs = <<>>
    /\ input_own_addrs = <<>>
    /\ filtered = Option_None
    /\ reachable = Option_None

\* No discovery engine has been built (the state of its variables in the
\* specifications of the other parts).
DiscoveryIdle ==
    /\ discovery = Option_None
    /\ the_swarm = Option_None

\* The PendingRequests value the variables hold.
Self ==
    [requests              |-> requests,
     max_batch_size        |-> max_batch_size,
     next_uncovered_range  |-> next_uncovered_range,
     last_validated_height |-> last_validated_height,
     panicked              |-> panicked]

EmptyMap == [id \in {} |-> Option_None]

\* ------------------------------------------------------ PendingRequests::*
\* Variant of new that keeps max_batch_size as given (no max(1, ..)).
new_unraised(initial_height, batch) ==
    [requests              |-> [id \in {} |-> Option_None],
     max_batch_size        |-> batch,
     next_uncovered_range  |-> [start |-> initial_height,
                                end   |-> initial_height + (batch - 1)],
     last_validated_height |->
         IF initial_height > 0 THEN initial_height - 1 ELSE initial_height,
     panicked              |-> FALSE]

\* new: max_batch_size is raised to 1; last_validated_height is one less than
\* initial_height, or initial_height itself when it cannot be decremented.
new(initial_height, batch) ==
    LET mbs == max(1, batch)
        end_height == initial_height + (mbs - 1)
    IN  [requests              |-> EmptyMap,
         max_batch_size        |-> mbs,
         next_uncovered_range  |-> [start |-> initial_height, end |-> end_height],
         last_validated_height |->
             IF initial_height > 0 THEN initial_height - 1 ELSE initial_height,
         panicked              |-> FALSE]

\* get_ranges: the ranges in map (request id) order, stably sorted by start.
get_ranges(self) ==
    LET ids == DOMAIN self.requests
        Start(a) == self.requests[a].range.start
        Before(a, b) == Start(a) < Start(b) \/ (Start(a) = Start(b) /\ a < b)
        nth(i) == CHOOSE a \in ids : Cardinality({b \in ids : Before(b, a)}) = i - 1
    IN  [i \in 1..Cardinality(ids) |-> self.requests[nth(i)].range]

\* Variant of advance_start with an `if` for the `while`: start_height is moved
\* past one covering range only.
advance_start_once(ranges, start_height) ==
    LET covering == {i \in DOMAIN ranges : contains(ranges[i], start_height)}
    IN  IF covering = {}
        THEN start_height
        ELSE LET first == CHOOSE i \in covering : \A j \in covering : i <= j
             IN  ranges[first].end + 1

\* The while-let loop of compute_next_uncovered_range_from: move start_height
\* past the first range (in sorted order) that contains it, until none does.
RECURSIVE advance_start(_, _)
advance_start(ranges, start_height) ==
    LET covering == {i \in DOMAIN ranges : contains(ranges[i], start_height)}
    IN  IF covering = {}
        THEN start_height
        ELSE LET first == CHOOSE i \in covering : \A j \in covering : i <= j
             IN  advance_start(ranges, ranges[first].end + 1)

\* The number of iterations the while-let loop makes from start_height.
RECURSIVE advance_steps(_, _)
advance_steps(ranges, start_height) ==
    LET covering == {i \in DOMAIN ranges : contains(ranges[i], start_height)}
    IN  IF covering = {}
        THEN 0
        ELSE LET first == CHOOSE i \in covering : \A j \in covering : i <= j
             IN  1 + advance_steps(ranges, ranges[first].end + 1)

\* Variant of compute_next_uncovered_range_from without the loop that limits
\* end_height to just before the next pending range.
compute_next_uncovered_range_from_unclamped(self, initial_height) ==
    LET start_height == advance_start(get_ranges(self), initial_height)
    IN  [start |-> start_height,
         end   |-> start_height + (self.max_batch_size - 1)]

\* Variant of compute_next_uncovered_range_from that forgets the decrement():
\* the range ends at the start of the pending range that limits it.
compute_next_uncovered_range_from_undecremented(self, initial_height) ==
    LET ranges == get_ranges(self)
        start_height == advance_start(ranges, initial_height)
        full_end == start_height + (self.max_batch_size - 1)
        limiting == {i \in DOMAIN ranges :
                        /\ ranges[i].start > start_height
                        /\ ranges[i].start <= full_end}
    IN  [start |-> start_height,
         end   |-> IF limiting = {}
                   THEN full_end
                   ELSE ranges[CHOOSE i \in limiting :
                                   \A j \in limiting : i <= j].start]

compute_next_uncovered_range_from(self, initial_height) ==
    LET ranges == get_ranges(self)
        start_height == advance_start(ranges, initial_height)
        full_end == start_height + (self.max_batch_size - 1)
        limiting == {i \in DOMAIN ranges :
                        /\ ranges[i].start > start_height
                        /\ ranges[i].start <= full_end}
        end_height ==
            IF limiting = {}
            THEN full_end
            ELSE LET first == CHOOSE i \in limiting : \A j \in limiting : i <= j
                 IN  IF ranges[first].start > 0
                     THEN ranges[first].start - 1
                     ELSE full_end
    IN  [start |-> start_height, end |-> end_height]

compute_next_uncovered_range(self) ==
    compute_next_uncovered_range_from(self, self.next_uncovered_range.start)

\* set_next_uncovered_range: the assert! fails (panic) unless the new start is
\* above last_validated_height.
set_next_uncovered_range(self, new_range) ==
    IF new_range.start > self.last_validated_height
    THEN [self EXCEPT !.next_uncovered_range = new_range]
    ELSE [self EXCEPT !.panicked = TRUE]

update_next_range(self) ==
    set_next_uncovered_range(self, compute_next_uncovered_range(self))

\* Variant of update_next_range_after_insert that moves the next range past
\* an inserted range only when that range covers its end.
update_next_range_after_insert_covering(self, inserted_range) ==
    IF contains(inserted_range, self.next_uncovered_range.end)
    THEN set_next_uncovered_range(self,
             compute_next_uncovered_range_from(self, inserted_range.end + 1))
    ELSE self

update_next_range_after_insert(self, inserted_range) ==
    LET next == self.next_uncovered_range
    IN  IF inserted_range.start > next.end
        THEN self
        ELSE IF inserted_range.start <= next.end /\ inserted_range.end >= next.start
        THEN set_next_uncovered_range(self,
                 compute_next_uncovered_range_from(self, inserted_range.end + 1))
        ELSE IF contains(inserted_range, next.start)
        THEN set_next_uncovered_range(self,
                 compute_next_uncovered_range_from(self, next.start))
        ELSE self

\* Variant of update_next_range_after_remove that does start earlier, as its
\* comments announce: the next range is recomputed from the start of a removed
\* range that ends before it.
update_next_range_after_remove_earlier(self, removed_range) ==
    LET next == self.next_uncovered_range
    IN  IF removed_range.end < next.start
        THEN set_next_uncovered_range(self,
                 compute_next_uncovered_range_from(self, removed_range.start))
        ELSE IF removed_range.start > next.end
        THEN self
        ELSE update_next_range(self)

\* Variant of update_next_range_after_remove without the early return for a
\* removed range that starts after the next range: it always recomputes.
update_next_range_after_remove_recomputing(self, removed_range) ==
    update_next_range(self)

update_next_range_after_remove(self, removed_range) ==
    LET next == self.next_uncovered_range
        potential_start == max(next.start, removed_range.start)
    IN  IF removed_range.end < next.start /\ potential_start < next.start
        THEN set_next_uncovered_range(self,
                 compute_next_uncovered_range_from(self, potential_start))
        ELSE IF removed_range.start > next.end
        THEN self
        ELSE update_next_range(self)

\* BTreeMap::insert: a present key has its value replaced.
map_insert(map, key, value) ==
    [k \in DOMAIN map \cup {key} |-> IF k = key THEN value ELSE map[k]]

map_remove(map, key) == [k \in DOMAIN map \ {key} |-> map[k]]

\* Variant of retain_ending_after with >= for >: a request that ends exactly
\* at height is kept.
retain_ending_at_or_after(map, height) ==
    LET kept == {k \in DOMAIN map : map[k].range.end >= height}
    IN  [k \in kept |-> map[k]]

\* BTreeMap::retain with the closure of remove_requests_up_to.
retain_ending_after(map, height) ==
    LET kept == {k \in DOMAIN map : map[k].range.end > height}
    IN  [k \in kept |-> map[k]]

\* Variant of insert that records start..=end+1 for the range start..=end (the
\* inclusive range taken for an exclusive one).
insert_widened(self, request_id, range, peer_id) ==
    LET wide == [start |-> range.start, end |-> range.end + 1]
    IN  update_next_range_after_insert(
            [self EXCEPT !.requests =
                map_insert(@, request_id, [range |-> wide, peer_id |-> peer_id])],
            wide)

insert(self, request_id, range, peer_id) ==
    update_next_range_after_insert(
        [self EXCEPT !.requests =
            map_insert(@, request_id, [range |-> range, peer_id |-> peer_id])],
        range)

\* remove: the planner after the call and the value returned.
remove(self, request_id) ==
    IF request_id \in DOMAIN self.requests
    THEN LET entry == self.requests[request_id]
             removed == [self EXCEPT !.requests = map_remove(@, request_id)]
         IN  [self   |-> update_next_range_after_remove(removed, entry.range),
              result |-> Option_Some(<<entry.range, entry.peer_id>>)]
    ELSE [self |-> self, result |-> Option_None]

\* Variant of remove_requests_up_to without the early return for a height
\* below last_validated_height.
remove_requests_up_to_unguarded(self, height) ==
    LET retained == [self EXCEPT
                        !.requests = retain_ending_after(@, height),
                        !.last_validated_height = height]
    IN  set_next_uncovered_range(retained,
            compute_next_uncovered_range_from(retained, height + 1))

\* Variant of remove_requests_up_to that does what its doc comment says for a
\* height below last_validated_height: it uses last_validated_height instead.
remove_requests_up_to_clamped(self, height) ==
    remove_requests_up_to_unguarded(self, max(height, self.last_validated_height))

\* Variant of remove_requests_up_to that ends with update_next_range(): the
\* next range is recomputed from the current sync height, not from height + 1.
remove_requests_up_to_recomputing(self, height) ==
    IF height < self.last_validated_height
    THEN self
    ELSE update_next_range(
             [self EXCEPT !.requests = retain_ending_after(@, height),
                          !.last_validated_height = height])

\* Variant of remove_requests_up_to that forgets the increment(): the next
\* range is computed from height, not from height + 1.
remove_requests_up_to_from_height(self, height) ==
    IF height < self.last_validated_height
    THEN self
    ELSE LET retained == [self EXCEPT
                            !.requests = retain_ending_after(@, height),
                            !.last_validated_height = height]
         IN  set_next_uncovered_range(retained,
                 compute_next_uncovered_range_from(retained, height))

remove_requests_up_to(self, height) ==
    IF height < self.last_validated_height
    THEN self
    ELSE LET retained == [self EXCEPT
                            !.requests = retain_ending_after(@, height),
                            !.last_validated_height = height]
         IN  set_next_uncovered_range(retained,
                 compute_next_uncovered_range_from(retained, height + 1))

\* ----------------------------------------------------------------- actions
Become(self) ==
    /\ requests' = self.requests
    /\ max_batch_size' = self.max_batch_size
    /\ next_uncovered_range' = self.next_uncovered_range
    /\ last_validated_height' = self.last_validated_height
    /\ panicked' = self.panicked
    /\ UNCHANGED <<filter_vars, discovery_vars>>

Init ==
    \E initial_height \in 0..MaxInitHeight, batch \in 0..MaxBatchSize :
        LET self == new(initial_height, batch)
        IN  /\ requests = self.requests
            /\ max_batch_size = self.max_batch_size
            /\ next_uncovered_range = self.next_uncovered_range
            /\ last_validated_height = self.last_validated_height
            /\ panicked = self.panicked
            /\ FilterIdle
            /\ DiscoveryIdle

\* insert with any request id, any non-empty range and any peer.
Insert ==
    \E request_id \in RequestIds, range \in NonEmptyRanges, peer_id \in PeerIds :
        /\ ~panicked
        /\ Become(insert(Self, request_id, range, peer_id))

Remove ==
    \E request_id \in RequestIds :
        /\ ~panicked
        /\ Become(remove(Self, request_id).self)

RemoveRequestsUpTo ==
    \E height \in Heights :
        /\ ~panicked
        /\ Become(remove_requests_up_to(Self, height))

Next == Insert \/ Remove \/ RemoveRequestsUpTo

Spec == Init /\ [][Next]_vars

\* The use the sync engine makes of the planner: it is created at a height that
\* has a predecessor, and a request is only ever inserted, under a request id
\* that is not pending, for the range next_uncovered_range() returns or for a
\* non-empty prefix of it.
InitPlanned ==
    \E initial_height \in 1..MaxInitHeight, batch \in 0..MaxBatchSize :
        LET self == new(initial_height, batch)
        IN  /\ requests = self.requests
            /\ max_batch_size = self.max_batch_size
            /\ next_uncovered_range = self.next_uncovered_range
            /\ last_validated_height = self.last_validated_height
            /\ panicked = self.panicked
            /\ FilterIdle
            /\ DiscoveryIdle

InsertPlanned ==
    \E request_id \in RequestIds \ DOMAIN requests, end \in Heights,
       peer_id \in PeerIds :
        /\ ~panicked
        /\ next_uncovered_range.start <= end
        /\ end <= next_uncovered_range.end
        /\ Become(insert(Self, request_id,
                         [start |-> next_uncovered_range.start, end |-> end],
                         peer_id))

NextPlanned == InsertPlanned \/ Remove \/ RemoveRequestsUpTo

SpecPlanned == InitPlanned /\ [][NextPlanned]_vars

\* The same use of the planner, created at any height, 0 included.
SpecPlannedAnyHeight == Init /\ [][NextPlanned]_vars

\* =================================================================== text
\* A string is the sequence of its characters.  The display text of a peer id
\* (base58) is one opaque character: it holds none of '/', '.', ':', '-', so no
\* pattern the code searches for can begin or end inside it.
RECURSIVE Decimal(_)
\* u8 / u16 Display: decimal digits, no leading zero.
Decimal(n) ==
    LET digit == <<"0", "1", "2", "3", "4", "5", "6", "7", "8", "9">>[(n % 10) + 1]
    IN  IF n < 10 THEN <<digit>> ELSE Decimal(n \div 10) \o <<digit>>

RECURSIVE LowerHex(_)
\* {:x} of a u16: lower-case hexadecimal digits, no leading zero.
LowerHex(n) ==
    LET digit == <<"0", "1", "2", "3", "4", "5", "6", "7", "8", "9",
                   "a", "b", "c", "d", "e", "f">>[(n % 16) + 1]
    IN  IF n < 16 THEN <<digit>> ELSE LowerHex(n \div 16) \o <<digit>>

\* pat occurs in s at index i.
occurs_at(s, pat, i) == \A k \in 1..Len(pat) : s[i + k - 1] = pat[k]

\* str::contains(pat)
str_contains(s, pat) ==
    \E i \in 1..(Len(s) - Len(pat) + 1) : occurs_at(s, pat, i)

RECURSIVE matches_count_from(_, _, _)
\* str::matches(pat).count(): the occurrences of pat found from the left, each
\* search resuming after the end of the occurrence before it.
matches_count_from(s, pat, from) ==
    LET hits == {i \in from..(Len(s) - Len(pat) + 1) : occurs_at(s, pat, i)}
    IN  IF hits = {}
        THEN 0
        ELSE LET first == CHOOSE i \in hits : \A j \in hits : i <= j
             IN  1 + matches_count_from(s, pat, first + Len(pat))

matches_count(s, pat) == matches_count_from(s, pat, 1)

\* The patterns of the address filter and of relay synthesis.
LOOPBACK_V4 == <<"1", "2", "7", ".", "0", ".", "0", ".", "1">>
LOOPBACK_V6 == <<":", ":", "1">>
CIRCUIT == <<"/", "p", "2", "p", "-", "c", "i", "r", "c", "u", "i", "t", "/">>
WILDCARD_V4 == <<"/", "0", ".", "0", ".", "0", ".", "0", "/">>
WILDCARD_V6 == <<"/", ":", ":", "/">>

\* ------------------------------------------------------- Ipv4Addr, Ipv6Addr
\* An IPv4 address is its four octets, an IPv6 address its eight 16-bit
\* segments.
Ipv4Text(octets) ==
    Decimal(octets[1]) \o <<".">> \o Decimal(octets[2]) \o <<".">>
        \o Decimal(octets[3]) \o <<".">> \o Decimal(octets[4])

RECURSIVE fmt_subslice(_)
\* Segments in hexadecimal, separated by ':'.
fmt_subslice(segments) ==
    IF Len(segments) = 0 THEN <<>>
    ELSE IF Len(segments) = 1 THEN LowerHex(segments[1])
    ELSE LowerHex(segments[1]) \o <<":">> \o fmt_subslice(Tail(segments))

\* The length of the run of zero segments that starts at index i.
ZeroRun(segments, i) ==
    LET stops == {j \in i..(Len(segments) + 1) :
                     j = Len(segments) + 1 \/ segments[j] # 0}
    IN  (CHOOSE j \in stops : \A k \in stops : j <= k) - i

\* Ipv6Addr Display: an IPv4-mapped address is ::ffff:a.b.c.d; otherwise the
\* first longest run of two or more zero segments is written "::".
Ipv6Text(segments) ==
    IF SubSeq(segments, 1, 5) = <<0, 0, 0, 0, 0>> /\ segments[6] = 65535
    THEN <<":", ":", "f", "f", "f", "f", ":">>
             \o Ipv4Text(<<segments[7] \div 256, segments[7] % 256,
                           segments[8] \div 256, segments[8] % 256>>)
    ELSE LET longest_len ==
                 CHOOSE n \in 0..8 :
                     /\ \E i \in 1..8 : ZeroRun(segments, i) = n
                     /\ \A i \in 1..8 : ZeroRun(segments, i) <= n
             longest_start ==
                 CHOOSE i \in 1..8 :
                     /\ ZeroRun(segments, i) = longest_len
                     /\ \A j \in 1..(i - 1) : ZeroRun(segments, j) < longest_len
         IN  IF longest_len > 1
             THEN fmt_subslice(SubSeq(segments, 1, longest_start - 1))
                      \o <<":", ":">>
                      \o fmt_subslice(SubSeq(segments,
                                             longest_start + longest_len, 8))
             ELSE fmt_subslice(segments)

\* Ipv4Addr::is_private: 10.0.0.0/8, 172.16.0.0/12, 192.168.0.0/16.
Ipv4_is_private(octets) ==
    \/ octets[1] = 10
    \/ (octets[1] = 172 /\ octets[2] \div 16 = 1)
    \/ (octets[1] = 192 /\ octets[2] = 168)

\* Ipv6Addr::is_unique_local (fc00::/7), is_unicast_link_local (fe80::/10).
Ipv6_is_unique_local(segments) == segments[1] \div 512 = 126
Ipv6_is_unicast_link_local(segments) == segments[1] \div 64 = 1018

\* ---------------------------------------------------------------- Multiaddr
\* A Multiaddr is the sequence of its protocol components:
\*   [proto |-> "ip4", ip |-> octets]      [proto |-> "ip6", ip |-> segments]
\*   [proto |-> "dns", name |-> text]      [proto |-> "tcp", port |-> n]
\*   [proto |-> "p2p", peer |-> id]        [proto |-> "p2p-circuit"]
Ip4(a, b, c, d) == [proto |-> "ip4", ip |-> <<a, b, c, d>>]
Ip6(segments) == [proto |-> "ip6", ip |-> segments]
Dns(name) == [proto |-> "dns", name |-> name]
Tcp(port) == [proto |-> "tcp", port |-> port]
P2p(peer) == [proto |-> "p2p", peer |-> peer]
P2pCircuit == [proto |-> "p2p-circuit"]

\* Protocol Display: "/<name>" and, for all but p2p-circuit, "/<value>".
protocol_to_string(p) ==
    CASE p.proto = "ip4" -> <<"/", "i", "p", "4", "/">> \o Ipv4Text(p.ip)
      [] p.proto = "ip6" -> <<"/", "i", "p", "6", "/">> \o Ipv6Text(p.ip)
      [] p.proto = "dns" -> <<"/", "d", "n", "s", "/">> \o p.name
      [] p.proto = "tcp" -> <<"/", "t", "c", "p", "/">> \o Decimal(p.port)
      [] p.proto = "p2p" -> <<"/", "p", "2", "p", "/", p.peer>>
      [] p.proto = "p2p-circuit" ->
             <<"/", "p", "2", "p", "-", "c", "i", "r", "c", "u", "i", "t">>

RECURSIVE to_string(_)
\* Multiaddr Display: the components' texts one after the other.
to_string(addr) ==
    IF Len(addr) = 0 THEN <<>>
    ELSE protocol_to_string(Head(addr)) \o to_string(Tail(addr))

\* Multiaddr::push
push(addr, p) == Append(addr, p)

\* ------------------------------------------------------------ addr_filter.rs
\* extract_ip: the first ip4 or ip6 component, if any.
extract_ip(addr) ==
    LET ips == {i \in DOMAIN addr : addr[i].proto \in {"ip4", "ip6"}}
    IN  IF ips = {}
        THEN Option_None
        ELSE Option_Some(addr[CHOOSE i \in ips : \A j \in ips : i <= j])

is_private_ip(ip) ==
    IF ip.proto = "ip4"
    THEN Ipv4_is_private(ip.ip)
    ELSE Ipv6_is_unique_local(ip.ip) \/ Ipv6_is_unicast_link_local(ip.ip)

\* same_subnet with prefix_len 16 (the only prefix length the filter uses):
\* Ipv4Net / Ipv6Net ::new(ip1, 16).contains(ip2) compares the first 16 bits.
same_subnet(ip1, ip2) ==
    CASE ip1.proto = "ip4" /\ ip2.proto = "ip4" ->
             ip1.ip[1] = ip2.ip[1] /\ ip1.ip[2] = ip2.ip[2]
      [] ip1.proto = "ip6" /\ ip2.proto = "ip6" -> ip1.ip[1] = ip2.ip[1]
      [] OTHER -> FALSE

\* The closure of the first filter of both functions: the string tests for
\* loopback and for more than one "/p2p-circuit/".
is_loopback_text(addr) ==
    LET addr_str == to_string(addr)
    IN  str_contains(addr_str, LOOPBACK_V4) \/ str_contains(addr_str, LOOPBACK_V6)

keep_non_loopback(addr) ==
    LET addr_str == to_string(addr)
    IN  IF str_contains(addr_str, LOOPBACK_V4) \/ str_contains(addr_str, LOOPBACK_V6)
        THEN FALSE
        ELSE IF matches_count(addr_str, CIRCUIT) > 1
        THEN FALSE
        ELSE TRUE

\* The match on (own_is_private, peer_is_private).
reachable_from(own_ip, peer_ip) ==
    LET own_is_private == is_private_ip(own_ip)
        peer_is_private == is_private_ip(peer_ip)
    IN  CASE own_is_private /\ peer_is_private -> same_subnet(own_ip, peer_ip)
          [] own_is_private /\ ~peer_is_private -> TRUE
          [] ~own_is_private /\ peer_is_private -> FALSE
          [] OTHER -> TRUE

\* The loop over own_addrs_filtered: reachable from any own address that has
\* an IP component.
is_reachable(own_addrs_filtered, peer_ip) ==
    \E i \in DOMAIN own_addrs_filtered :
        LET own_ip == extract_ip(own_addrs_filtered[i])
        IN  own_ip.is_some /\ reachable_from(own_ip.value, peer_ip)

\* The class the separating loop gives an address of non_loopback_addrs.
classify(own_addrs_filtered, addr) ==
    IF str_contains(to_string(addr), CIRCUIT)
    THEN "skipped"
    ELSE LET peer_ip == extract_ip(addr)
         IN  IF ~peer_ip.is_some THEN "direct"
             ELSE IF is_reachable(own_addrs_filtered, peer_ip.value) THEN "direct"
             ELSE "relay"

\* Variant of filter_addresses_with_relay without the `else` of the last test:
\* an address with an IP component is pushed to relay_candidates whether or
\* not it was pushed to direct.
filter_addresses_with_relay_no_else(addrs, own_addrs) ==
    LET non_loopback_addrs == SelectSeq(addrs, keep_non_loopback)
        not_loopback(a) == ~is_loopback_text(a)
        own_addrs_filtered == SelectSeq(own_addrs, not_loopback)
        is_direct(a) == classify(own_addrs_filtered, a) = "direct"
        has_ip(a) == classify(own_addrs_filtered, a) # "skipped"
                         /\ extract_ip(a).is_some
    IN  IF Len(non_loopback_addrs) = 0
        THEN [direct |-> addrs, relay_candidates |-> <<>>]
        ELSE IF Len(own_addrs_filtered) = 0
        THEN [direct |-> non_loopback_addrs, relay_candidates |-> <<>>]
        ELSE [direct           |-> SelectSeq(non_loopback_addrs, is_direct),
              relay_candidates |-> SelectSeq(non_loopback_addrs, has_ip)]

\* peer_info is only logged.
filter_addresses_with_relay(addrs, own_addrs) ==
    LET non_loopback_addrs == SelectSeq(addrs, keep_non_loopback)
        not_loopback(a) == ~is_loopback_text(a)
        own_addrs_filtered == SelectSeq(own_addrs, not_loopback)
        is_direct(a) == classify(own_addrs_filtered, a) = "direct"
        is_relay(a) == classify(own_addrs_filtered, a) = "relay"
    IN  IF Len(non_loopback_addrs) = 0
        THEN [direct |-> addrs, relay_candidates |-> <<>>]
        ELSE IF Len(own_addrs_filtered) = 0
        THEN [direct |-> non_loopback_addrs, relay_candidates |-> <<>>]
        ELSE [direct           |-> SelectSeq(non_loopback_addrs, is_direct),
              relay_candidates |-> SelectSeq(non_loopback_addrs, is_relay)]

\* The list in reverse order.
Reverse(seq) == [i \in DOMAIN seq |-> seq[Len(seq) + 1 - i]]

\* Variant of filter_reachable_addresses that collects the reachable addresses
\* in reverse order (each one put in front of those kept before it).
filter_reachable_addresses_reversed(addrs, own_addrs) ==
    LET non_loopback_addrs == SelectSeq(addrs, keep_non_loopback)
        not_loopback(a) == ~is_loopback_text(a)
        own_addrs_filtered == SelectSeq(own_addrs, not_loopback)
        is_direct(a) == classify(own_addrs_filtered, a) = "direct"
    IN  IF Len(non_loopback_addrs) = 0
        THEN addrs
        ELSE IF Len(own_addrs_filtered) = 0
        THEN non_loopback_addrs
        ELSE Reverse(SelectSeq(non_loopback_addrs, is_direct))

\* peer_info is only logged and _relay_enabled is not read.
filter_reachable_addresses(addrs, own_addrs) ==
    LET non_loopback_addrs == SelectSeq(addrs, keep_non_loopback)
        not_loopback(a) == ~is_loopback_text(a)
        own_addrs_filtered == SelectSeq(own_addrs, not_loopback)
        is_direct(a) == classify(own_addrs_filtered, a) = "direct"
    IN  IF Len(non_loopback_addrs) = 0
        THEN addrs
        ELSE IF Len(own_addrs_filtered) = 0
        THEN non_loopback_addrs
        ELSE SelectSeq(non_loopback_addrs, is_direct)

\* ------------------------------------------- the address filter on its own
\* Addresses a peer may advertise.
PeerAddrs ==
    { <<Ip4(10, 0, 0, 6), Tcp(9000)>>,
      <<Ip4(10, 1, 0, 6), Tcp(9000)>>,
      <<Ip4(8, 8, 8, 8), Tcp(9000)>>,
      <<Ip4(127, 0, 0, 1), Tcp(9000)>>,
      <<Ip6(<<0, 0, 0, 0, 0, 0, 0, 1>>), Tcp(9000)>>,
      <<Ip6(<<8193, 3512, 0, 0, 0, 0, 0, 1>>), Tcp(9000)>>,
      <<Dns(<<"n">>), Tcp(9000)>>,
      <<Ip4(1, 2, 3, 4), Tcp(1), P2p("R1"), P2pCircuit, P2p("T")>>,
      <<Ip4(1, 2, 3, 4), Tcp(1), P2p("R1"), P2pCircuit>>,
      <<Ip4(1, 2, 3, 4), Tcp(1), P2p("R1"), P2pCircuit, P2p("R2"),
        P2pCircuit, P2p("T")>> }

\* Addresses of the filtering node (external and listener addresses).
OwnAddrs ==
    { <<Ip4(10, 0, 0, 5), Tcp(9000)>>,
      <<Ip4(203, 0, 113, 1), Tcp(9000)>>,
      <<Ip4(127, 0, 0, 1), Tcp(9000)>> }

\* The lists of at most n elements of S.
SeqsUpTo(S, n) == UNION {[1..k -> S] : k \in 0..n}

\* Those without a repeated element: the external addresses and the listener
\* addresses of a swarm are each kept without duplicates.
DistinctSeqsUpTo(S, n) ==
    {seq \in SeqsUpTo(S, n) :
        \A i \in DOMAIN seq, j \in DOMAIN seq : seq[i] = seq[j] => i = j}

\* The planner is not in use (the state of its variables in the specifications
\* of the other parts).
PlannerIdle ==
    LET self == new(1, 1)
    IN  /\ requests = self.requests
        /\ max_batch_size = self.max_batch_size
        /\ next_uncovered_range = self.next_uncovered_range
        /\ last_validated_height = self.last_validated_height
        /\ panicked = self.panicked

FilterInit ==
    /\ input_addrs \in SeqsUpTo(PeerAddrs, MaxAddrs)
    /\ input_own_addrs \in DistinctSeqsUpTo(OwnAddrs, MaxOwnAddrs)
    /\ filtered = Option_None
    /\ reachable = Option_None
    /\ PlannerIdle
    /\ DiscoveryIdle

\* filter_addresses_with_relay(input_addrs, input_own_addrs, _)
FilterAddressesWithRelay ==
    /\ filtered' = Option_Some(
           filter_addresses_with_relay(input_addrs, input_own_addrs))
    /\ UNCHANGED <<input_addrs, input_own_addrs, reachable>>
    /\ UNCHANGED <<planner_vars, discovery_vars>>

\* filter_reachable_addresses(input_addrs, input_own_addrs, _)
FilterReachableAddresses ==
    /\ reachable' = Option_Some(
           filter_reachable_addresses(input_addrs, input_own_addrs))
    /\ UNCHANGED <<input_addrs, input_own_addrs, filtered>>
    /\ UNCHANGED <<planner_vars, discovery_vars>>

FilterNext == FilterAddressesWithRelay \/ FilterReachableAddresses

SpecFilter == FilterInit /\ [][FilterNext]_vars

\* ================================================================ discovery
\* The discovery engine (struct Discovery, lib.rs) and the part of the swarm
\* its handlers read and write.  A (Option<PeerId>, Vec<Multiaddr>) pair is a
\* tuple <<peer id, addresses>>; an identify::Info is the record of its
\* listen_addrs (no other field is read).

\* enum State
State_Bootstrapping == [tag |-> "Bootstrapping"]
State_Extending(target) == [tag |-> "Extending", target |-> target]
State_Idle == [tag |-> "Idle"]

\* Vec::contains / slice::contains
Vec_contains(v, x) == \E i \in DOMAIN v : v[i] = x

\* Controller::new: nothing queued, nothing in progress, no peer queried.
Controller_new ==
    [dial            |-> [in_progress |-> EmptyMap, queue |-> {}],
     close           |-> [queue |-> {}],
     connect_request |-> [queue |-> {}],
     peers_request   |-> [done_on |-> {}, in_progress |-> EmptyMap,
                          queue |-> {}]]

\* Variant of Discovery::new that starts bootstrapping in either mode.
Discovery_new_bootstrapping(config, bootstrap_nodes, relay_servers) ==
    [config |-> config,
     state  |->
         IF config.enabled /\ Len(bootstrap_nodes) > 0
         THEN State_Bootstrapping
         ELSE State_Idle,
     bootstrap_nodes    |-> [i \in DOMAIN bootstrap_nodes |->
                                <<Option_None, <<bootstrap_nodes[i]>> >>],
     relay_servers      |-> [i \in DOMAIN relay_servers |->
                                <<Option_None, <<relay_servers[i]>> >>],
     discovered_peers   |-> EmptyMap,
     active_connections |-> EmptyMap,
     outbound_peers     |-> EmptyMap,
     inbound_peers      |-> {},
     controller         |-> Controller_new,
     metrics            |-> [total_discovered |-> 0,
                             total_peer_requests |-> 0,
                             total_failed_peer_requests |-> 0]]

\* Discovery::new
Discovery_new(config, bootstrap_nodes, relay_servers) ==
    [config |-> config,
     state  |->
         IF config.enabled /\ Len(bootstrap_nodes) = 0 THEN State_Idle
         ELSE IF config.enabled THEN
             IF config.bootstrap_protocol = "Kademlia"
             THEN State_Bootstrapping
             ELSE State_Extending(config.num_outbound_peers)
         ELSE State_Idle,
     bootstrap_nodes    |-> [i \in DOMAIN bootstrap_nodes |->
                                <<Option_None, <<bootstrap_nodes[i]>> >>],
     relay_servers      |-> [i \in DOMAIN relay_servers |->
                                <<Option_None, <<relay_servers[i]>> >>],
     discovered_peers   |-> EmptyMap,
     active_connections |-> EmptyMap,
     outbound_peers     |-> EmptyMap,
     inbound_peers      |-> {},
     controller         |-> Controller_new,
     metrics            |-> [total_discovered |-> 0,
                             total_peer_requests |-> 0,
                             total_failed_peer_requests |-> 0]]

is_enabled(self) == self.config.enabled

\* ---------------------------------------------- relay synthesis (lib.rs)
\* <addr>/p2p/<relay>/p2p-circuit/p2p/<target>
circuit_addr(addr, relay_peer_id, target_peer_id) ==
    push(push(push(addr, P2p(relay_peer_id)), P2pCircuit), P2p(target_peer_id))

RECURSIVE construct_relay_addresses_over(_, _)
\* The loop of construct_relay_addresses over the relay entries, in order:
\* every address of every entry whose peer id is known.
construct_relay_addresses_over(relay_servers, target_peer_id) ==
    IF Len(relay_servers) = 0 THEN <<>>
    ELSE LET maybe_relay_peer_id == Head(relay_servers)[1]
             relay_addrs_list == Head(relay_servers)[2]
         IN  (IF maybe_relay_peer_id.is_some
              THEN [j \in DOMAIN relay_addrs_list |->
                       circuit_addr(relay_addrs_list[j],
                                    maybe_relay_peer_id.value, target_peer_id)]
              ELSE <<>>)
             \o construct_relay_addresses_over(Tail(relay_servers),
                                               target_peer_id)

construct_relay_addresses(self, target_peer_id) ==
    construct_relay_addresses_over(self.relay_servers, target_peer_id)

\* The listener addresses construct_relay_addresses_via_self passes over:
\* those whose text holds a wildcard, a loopback or a "/p2p-circuit/".
skipped_as_relay(our_addr) ==
    LET addr_str == to_string(our_addr)
    IN  \/ str_contains(addr_str, WILDCARD_V4)
        \/ str_contains(addr_str, WILDCARD_V6)
        \/ str_contains(addr_str, LOOPBACK_V4)
        \/ str_contains(addr_str, LOOPBACK_V6)
        \/ str_contains(addr_str, CIRCUIT)

construct_relay_addresses_via_self(self, swarm, target_peer_id) ==
    LET our_peer_id == swarm.local_peer_id
        our_addrs == swarm.listeners
        kept(our_addr) == ~skipped_as_relay(our_addr)
        usable == SelectSeq(our_addrs, kept)
    IN  [j \in DOMAIN usable |->
            circuit_addr(usable[j], our_peer_id, target_peer_id)]

\* ------------------------------------------ handlers/peers_request.rs
\* get_all_peers_except: the discovered peers that have an address, but for
\* `peer`, and the bootstrap entries none of whose addresses is held by a
\* discovered peer that has an address.
get_all_peers_except(self, peer) ==
    LET with_addrs ==
            {p \in DOMAIN self.discovered_peers :
                Len(self.discovered_peers[p].listen_addrs) # 0}
        remaining_bootstrap_nodes ==
            {i \in DOMAIN self.bootstrap_nodes :
                \A p \in with_addrs :
                    \A k \in DOMAIN self.bootstrap_nodes[i][2] :
                        ~Vec_contains(self.discovered_peers[p].listen_addrs,
                                      self.bootstrap_nodes[i][2][k])}
    IN  {<<Option_Some(p), self.discovered_peers[p].listen_addrs>> :
            p \in with_addrs \ {peer}}
        \cup {self.bootstrap_nodes[i] : i \in remaining_bootstrap_nodes}

\* The addresses handle_peers_request filters against: the requester's stored
\* addresses, or ours when the requester is not a discovered peer.
requester_addrs(self, swarm, peer) ==
    IF peer \in DOMAIN self.discovered_peers
    THEN self.discovered_peers[peer].listen_addrs
    ELSE swarm.external_addresses \o swarm.listeners

\* The filter_map closure of handle_peers_request: what is sent for one
\* candidate (None when the candidate is left out).
response_entry_always_via_self(self, swarm, peer_addrs, candidate) ==
    LET maybe_peer_id == candidate[1]
        f == filter_addresses_with_relay(candidate[2], peer_addrs)
    IN  IF Len(f.direct) # 0 THEN Option_Some(<<maybe_peer_id, f.direct>>)
        ELSE IF Len(f.relay_candidates) # 0 /\ maybe_peer_id.is_some
        THEN Option_Some(<<maybe_peer_id,
                 construct_relay_addresses_via_self(self, swarm,
                                                    maybe_peer_id.value)>>)
        ELSE Option_None

response_entry(self, swarm, peer_addrs, candidate) ==
    LET maybe_peer_id == candidate[1]
        addrs == candidate[2]
        relay_client_enabled == Len(self.relay_servers) # 0
        f == filter_addresses_with_relay(addrs, peer_addrs)
    IN  IF Len(f.direct) # 0 THEN Option_Some(<<maybe_peer_id, f.direct>>)
        ELSE IF Len(f.relay_candidates) # 0 /\ maybe_peer_id.is_some
        THEN LET target_peer_id == maybe_peer_id.value
                 via_self == construct_relay_addresses_via_self(
                                 self, swarm, target_peer_id)
                 via_servers == construct_relay_addresses(self, target_peer_id)
             IN  IF Len(via_self) # 0
                 THEN Option_Some(<<Option_Some(target_peer_id), via_self>>)
                 ELSE IF relay_client_enabled /\ Len(via_servers) # 0
                 THEN Option_Some(<<Option_Some(target_peer_id), via_servers>>)
                 ELSE Option_None
        ELSE Option_None

\* The peers of the response to Request::Peers(peers) from `peer`.
peers_response(self, swarm, peer, peers) ==
    LET peers_difference == get_all_peers_except(self, peer) \ peers
        peer_addrs == requester_addrs(self, swarm, peer)
        entries == {response_entry(self, swarm, peer_addrs, c) :
                       c \in peers_difference}
    IN  {e.value : e \in {x \in entries : x.is_some}}

\* handle_peers_request: the response goes out on the requester's channel;
\* nothing of the engine changes.
handle_peers_request(self, swarm, peer, peers) ==
    [self  |-> self,
     swarm |-> [swarm EXCEPT !.response =
                   Option_Some([peer  |-> peer,
                                peers |-> peers_response(self, swarm,
                                                         peer, peers)])]]
\* RequestData::new: a request to a peer that has not been retried.
RequestData_new(peer_id) == [peer_id |-> peer_id, retry |-> [count |-> 0]]

\* DialData::new
DialData_new(peer_id, listen_addrs) ==
    [peer_id |-> peer_id, listen_addrs |-> listen_addrs]

\* Variant of should_peers_request that forgets whom it has queried.
should_peers_request_forgetful(self, request_data) ==
    \/ request_data.peer_id \notin {}
    \/ request_data.retry.count # 0

should_peers_request(self, request_data) ==
    \/ request_data.peer_id \notin self.controller.peers_request.done_on
    \/ request_data.retry.count # 0

\* peers_request_peer: the peer is marked as queried, the request is sent and
\* tracked under the id send_request returns.
peers_request_peer(self, swarm, request_data) ==
    IF ~is_enabled(self) \/ ~should_peers_request(self, request_data)
    THEN [self |-> self, swarm |-> swarm]
    ELSE LET request_id == swarm.next_request_id
             request == [peer_id |-> request_data.peer_id,
                         peers   |-> get_all_peers_except(
                                         self, request_data.peer_id)]
         IN  [self |->
                  [self EXCEPT
                      !.controller.peers_request.done_on =
                          @ \cup {request_data.peer_id},
                      !.metrics.total_peer_requests =
                          IF request_data.retry.count = 0 THEN @ + 1 ELSE @,
                      !.controller.peers_request.in_progress =
                          map_insert(@, request_id, request_data)],
              swarm |->
                  [swarm EXCEPT
                      !.next_request_id = @ + 1,
                      !.sent_requests = map_insert(@, request_id, request)]]

\* make_extension_step: while Extending(target), the extension is over (Idle)
\* once the outbound target is met or no discovered peer is left to query;
\* otherwise the peer the selector picks is sent a peers request.  `selection`
\* is the selector's order of preference.
make_extension_step(self, swarm, selection) ==
    IF self.state.tag # "Extending" THEN [self |-> self, swarm |-> swarm]
    ELSE LET not_queried(p) ==
                 /\ p \in DOMAIN self.discovered_peers
                 /\ p \notin self.controller.peers_request.done_on
             queryable == SelectSeq(selection, not_queried)
         IN  IF \/ Cardinality(DOMAIN self.outbound_peers) >= self.state.target
                \/ Len(queryable) = 0
             THEN [self |-> [self EXCEPT !.state = State_Idle], swarm |-> swarm]
             ELSE peers_request_peer(self, swarm,
                                     RequestData_new(Head(queryable)))

\* initiate_extension_with_target: a new extension towards `target` outbound
\* peers; no peer counts as queried any more.
initiate_extension_with_target(self, swarm, target, selection) ==
    make_extension_step(
        [self EXCEPT !.state = State_Extending(target),
                     !.controller.peers_request.done_on = {}],
        swarm, selection)

\* add_to_dial_queue: the dial data is handed to the dial queue.
add_to_dial_queue(self, swarm, dial_data) ==
    [self EXCEPT !.controller.dial.queue = @ \cup {dial_data}]

\* The closure of the partition in process_received_peers.
is_relay_circuit_text(addr) == str_contains(to_string(addr), CIRCUIT)

is_not_relay_circuit_text(addr) == ~is_relay_circuit_text(addr)

\* Lines 286-311: no direct address is left; with relay candidates, relay
\* servers and a known peer id the peer is dialed through the relay servers.
received_dial_relayed(self, peer_id, res) ==
    IF /\ Len(res.relay_candidates) # 0
       /\ Len(self.relay_servers) # 0
       /\ peer_id.is_some
    THEN IF Len(construct_relay_addresses(self, peer_id.value)) # 0
         THEN Option_Some(
                  DialData_new(Option_Some(peer_id.value),
                               construct_relay_addresses(self, peer_id.value)))
         ELSE Option_None
    ELSE Option_None

\* Lines 273-287: the addresses without relay circuit are res against our
\* addresses; direct ones are dialed.
received_dial_filtered(self, peer_id, res) ==
    IF Len(res.direct) # 0
    THEN Option_Some(DialData_new(peer_id, res.direct))
    ELSE received_dial_relayed(self, peer_id, res)

\* The body of the loop of process_received_peers: the dial data handed to
\* add_to_dial_queue for one received peer, if any.  Relay circuit addresses
\* are dialed as they are.
received_dial(self, swarm, peer_id, listen_addrs) ==
    IF Len(SelectSeq(listen_addrs, is_relay_circuit_text)) # 0
    THEN Option_Some(
             DialData_new(peer_id,
                          SelectSeq(listen_addrs, is_relay_circuit_text)))
    ELSE received_dial_filtered(
             self, peer_id,
             filter_addresses_with_relay(
                 SelectSeq(listen_addrs, is_not_relay_circuit_text),
                 swarm.external_addresses \o swarm.listeners))

\* process_received_peers: the loop over the received peers.  The dial queue
\* is a set, so the order in which the HashSet is visited does not show.
process_received_peers(self, swarm, peers) ==
    [self EXCEPT !.controller.dial.queue =
        @ \cup {received_dial(self, swarm, entry[1], entry[2]).value :
                   entry \in {e \in peers :
                       received_dial(self, swarm, e[1], e[2]).is_some}}]

\* handle_peers_response: the request is no longer in progress, the received
\* peers are processed and the extension goes on.
handle_peers_response(self, swarm, request_id, peers, selection) ==
    make_extension_step(
        process_received_peers(
            [self EXCEPT !.controller.peers_request.in_progress =
                map_remove(@, request_id)],
            swarm, peers),
        swarm, selection)

\* Retry::next_delay: the backoff delay before retry number `count`.
next_delay(retry) == [backoff |-> retry.count]

\* peers_request.add_to_queue(request_data, delay)
peers_request_add_to_queue(self, request_data, delay) ==
    [self EXCEPT !.controller.peers_request.queue =
        @ \cup {<<request_data, delay>>}]

\* Variant of handle_failed_peers_request that drops a failed request at
\* once, without retry.
handle_failed_peers_request_no_retry(self, swarm, request_id, selection) ==
    IF request_id \notin DOMAIN self.controller.peers_request.in_progress
    THEN [self |-> self, swarm |-> swarm]
    ELSE make_extension_step(
             [self EXCEPT
                 !.controller.peers_request.in_progress =
                     map_remove(@, request_id),
                 !.metrics.total_failed_peer_requests = @ + 1],
             swarm, selection)

\* handle_failed_peers_request: the request is no longer in progress; it is
\* queued again, with one more retry counted and a delay, while it has been
\* retried fewer than request_max_retries times, and given up otherwise: the
\* failure is counted and the extension goes on.
handle_failed_peers_request(self, swarm, request_id, selection) ==
    IF request_id \notin DOMAIN self.controller.peers_request.in_progress
    THEN [self |-> self, swarm |-> swarm]
    ELSE LET request_data == self.controller.peers_request.in_progress[
                                 request_id]
             removed == [self EXCEPT !.controller.peers_request.in_progress =
                            map_remove(@, request_id)]
             retried == [request_data EXCEPT !.retry.count = @ + 1]
         IN  IF request_data.retry.count < self.config.request_max_retries
             THEN [self  |-> peers_request_add_to_queue(
                                 removed, retried,
                                 Option_Some(next_delay(retried.retry))),
                   swarm |-> swarm]
             ELSE make_extension_step(
                      [removed EXCEPT
                          !.metrics.total_failed_peer_requests = @ + 1],
                      swarm, selection)

\* ------------------------------------- periodic rediscovery (lib.rs)
\* Variant of maybe_trigger_rediscovery that does not look at the state.
maybe_trigger_rediscovery_any_state(self, swarm, selection) ==
    IF self.config.bootstrap_protocol # "Full"
    THEN [self |-> self, swarm |-> swarm]
    ELSE IF Cardinality(DOMAIN self.outbound_peers)
                >= self.config.num_outbound_peers
    THEN [self |-> self, swarm |-> swarm]
    ELSE initiate_extension_with_target(
             self, swarm,
             self.config.num_outbound_peers
                 - Cardinality(DOMAIN self.outbound_peers),
             selection)

\* maybe_trigger_rediscovery: in Full mode, when Idle and short of outbound
\* peers, an extension for the missing ones is initiated.
maybe_trigger_rediscovery(self, swarm, selection) ==
    IF self.config.bootstrap_protocol # "Full"
    THEN [self |-> self, swarm |-> swarm]
    ELSE IF self.state # State_Idle
    THEN [self |-> self, swarm |-> swarm]
    ELSE LET len == Cardinality(DOMAIN self.outbound_peers)
             missing_outbound ==
                 IF self.config.num_outbound_peers > len
                 THEN self.config.num_outbound_peers - len ELSE 0
         IN  IF missing_outbound = 0
             THEN [self |-> self, swarm |-> swarm]
             ELSE initiate_extension_with_target(self, swarm,
                                                 missing_outbound, selection)

\* ------------------------------------------------- handlers/identify.rs
\* filter_loopback_addresses: the advertised addresses that are not loopback.
filter_loopback_addresses(listen_addrs) ==
    SelectSeq(listen_addrs, keep_non_loopback)

\* The entry update_bootstrap_node_peer_id / update_relay_server_peer_id
\* binds: the first one whose peer id is unset and that holds one of `addrs`
\* (0 when there is none).
first_unset_matching(entries, addrs) ==
    LET matching == {i \in DOMAIN entries :
                        /\ ~entries[i][1].is_some
                        /\ \E k \in DOMAIN addrs :
                               Vec_contains(entries[i][2], addrs[k])}
    IN  IF matching = {} THEN 0
        ELSE CHOOSE i \in matching : \A j \in matching : i <= j

\* The in-progress dials whose dial data carries the peer id.
dials_of(self, peer_id) ==
    {c \in DOMAIN self.controller.dial.in_progress :
        self.controller.dial.in_progress[c].peer_id = Option_Some(peer_id)}

\* get_in_progress_iter().find(..): the dial data of an in-progress dial of
\* the peer (that of its lowest connection id).
find_dial_data(self, peer_id) ==
    self.controller.dial.in_progress[
        CHOOSE c \in dials_of(self, peer_id) :
            \A d \in dials_of(self, peer_id) : c <= d]

\* update_bootstrap_node_peer_id, lines 71-90: the first unset entry that
\* holds an address of the dial is bound to the peer.
bind_bootstrap_node(self, peer_id, i) ==
    IF i = 0 THEN [self |-> self, result |-> FALSE]
    ELSE [self   |-> [self EXCEPT !.bootstrap_nodes[i][1] =
                                      Option_Some(peer_id)],
          result |-> TRUE]

\* Variant of update_bootstrap_node_peer_id without the skip of a peer that
\* is already bound to an entry.
update_bootstrap_node_peer_id_rebinding(self, peer_id) ==
    IF dials_of(self, peer_id) = {}
    THEN [self |-> self, result |-> FALSE]
    ELSE bind_bootstrap_node(
             self, peer_id,
             first_unset_matching(self.bootstrap_nodes,
                                  find_dial_data(self, peer_id).listen_addrs))

update_bootstrap_node_peer_id(self, peer_id) ==
    IF \E i \in DOMAIN self.bootstrap_nodes :
           self.bootstrap_nodes[i][1] = Option_Some(peer_id)
    THEN [self |-> self, result |-> FALSE]
    ELSE IF dials_of(self, peer_id) = {}
    THEN [self |-> self, result |-> FALSE]
    ELSE bind_bootstrap_node(
             self, peer_id,
             first_unset_matching(self.bootstrap_nodes,
                                  find_dial_data(self, peer_id).listen_addrs))

\* update_relay_server_peer_id, lines 120-136.
bind_relay_server(self, peer_id, i) ==
    IF i = 0 THEN [self |-> self, result |-> FALSE]
    ELSE [self   |-> [self EXCEPT !.relay_servers[i][1] =
                                      Option_Some(peer_id)],
          result |-> TRUE]

update_relay_server_peer_id_rebinding(self, peer_id, listen_addrs) ==
    bind_relay_server(self, peer_id,
                      first_unset_matching(self.relay_servers, listen_addrs))

update_relay_server_peer_id(self, peer_id, listen_addrs) ==
    IF \E i \in DOMAIN self.relay_servers :
           self.relay_servers[i][1] = Option_Some(peer_id)
    THEN [self |-> self, result |-> FALSE]
    ELSE bind_relay_server(
             self, peer_id,
             first_unset_matching(self.relay_servers, listen_addrs))

\* dial_remove_matching_in_progress_connections: the in-progress dials of the
\* peer are forgotten.
dial_remove_matching_in_progress_connections(self, peer_id) ==
    [self EXCEPT !.controller.dial.in_progress =
        [c \in DOMAIN @ \ dials_of(self, peer_id) |-> @[c]]]

\* close.add_to_queue((peer, connection), delay)
close_add_to_queue(self, peer_id, connection_id, delay) ==
    [self EXCEPT !.controller.close.queue =
        @ \cup {<< <<peer_id, connection_id>>, delay >>}]

EPHEMERAL_CONNECTION_TIMEOUT == Option_Some("ephemeral_connection_timeout")

\* handle_new_peer, lines 248-274: the connection is recorded unless the peer
\* already holds max_connections_per_peer connections.  `closed` says that the
\* connection was enqueued for close instead.
record_connection(self, peer_id, connection_id) ==
    IF peer_id \in DOMAIN self.active_connections
    THEN LET connection_ids == self.active_connections[peer_id]
         IN  IF Len(connection_ids) >= self.config.max_connections_per_peer
             THEN [self   |-> close_add_to_queue(self, peer_id, connection_id,
                                                 Option_None),
                   closed |-> TRUE, is_already_connected |-> TRUE]
             ELSE [self   |-> [self EXCEPT !.active_connections[peer_id] =
                                  Append(@, connection_id)],
                   closed |-> FALSE, is_already_connected |-> TRUE]
    ELSE [self   |-> [self EXCEPT !.active_connections =
                         map_insert(@, peer_id, <<connection_id>>)],
          closed |-> FALSE, is_already_connected |-> FALSE]

\* Variants of classify_connection: one that closes an ephemeral connection
\* without the timeout, one that promotes whatever the outbound count.
classify_connection_untimed(self, swarm, connection_id, peer_id, selection) ==
    IF is_enabled(self) THEN
        IF peer_id \in DOMAIN self.outbound_peers
        THEN [self |-> self, swarm |-> swarm, refused |-> FALSE]
        ELSE IF peer_id \in self.inbound_peers
        THEN [self |-> self, swarm |-> swarm, refused |-> FALSE]
        ELSE IF /\ self.state = State_Idle
                /\ Cardinality(DOMAIN self.outbound_peers)
                       < self.config.num_outbound_peers
        THEN [self |->
                  [self EXCEPT
                      !.outbound_peers = map_insert(@, peer_id, "Pending"),
                      !.controller.connect_request.queue =
                          @ \cup {<<RequestData_new(peer_id), Option_None>>}],
              swarm |-> swarm, refused |-> FALSE]
        ELSE LET closing == close_add_to_queue(self, peer_id, connection_id,
                                Option_None)
                 step == IF self.state.tag = "Extending"
                         THEN make_extension_step(closing, swarm, selection)
                         ELSE [self |-> closing, swarm |-> swarm]
             IN  [self |-> step.self, swarm |-> step.swarm, refused |-> FALSE]
    ELSE
        IF Cardinality(self.inbound_peers) < self.config.num_inbound_peers
        THEN [self  |-> [self EXCEPT !.inbound_peers = @ \cup {peer_id}],
              swarm |-> swarm, refused |-> FALSE]
        ELSE [self  |-> close_add_to_queue(self, peer_id, connection_id,
                                           Option_None),
              swarm |-> swarm, refused |-> TRUE]

classify_connection_unbounded(self, swarm, connection_id, peer_id, selection) ==
    IF is_enabled(self) THEN
        IF peer_id \in DOMAIN self.outbound_peers
        THEN [self |-> self, swarm |-> swarm, refused |-> FALSE]
        ELSE IF peer_id \in self.inbound_peers
        THEN [self |-> self, swarm |-> swarm, refused |-> FALSE]
        ELSE IF self.state = State_Idle
        THEN [self |->
                  [self EXCEPT
                      !.outbound_peers = map_insert(@, peer_id, "Pending"),
                      !.controller.connect_request.queue =
                          @ \cup {<<RequestData_new(peer_id), Option_None>>}],
              swarm |-> swarm, refused |-> FALSE]
        ELSE LET closing == close_add_to_queue(self, peer_id, connection_id,
                                EPHEMERAL_CONNECTION_TIMEOUT)
                 step == IF self.state.tag = "Extending"
                         THEN make_extension_step(closing, swarm, selection)
                         ELSE [self |-> closing, swarm |-> swarm]
             IN  [self |-> step.self, swarm |-> step.swarm, refused |-> FALSE]
    ELSE
        IF Cardinality(self.inbound_peers) < self.config.num_inbound_peers
        THEN [self  |-> [self EXCEPT !.inbound_peers = @ \cup {peer_id}],
              swarm |-> swarm, refused |-> FALSE]
        ELSE [self  |-> close_add_to_queue(self, peer_id, connection_id,
                                           Option_None),
              swarm |-> swarm, refused |-> TRUE]

\* handle_new_peer, lines 276-356: the role of the peer of a recorded
\* connection.
classify_connection(self, swarm, connection_id, peer_id, selection) ==
    IF is_enabled(self) THEN
        IF peer_id \in DOMAIN self.outbound_peers
        THEN [self |-> self, swarm |-> swarm, refused |-> FALSE]
        ELSE IF peer_id \in self.inbound_peers
        THEN [self |-> self, swarm |-> swarm, refused |-> FALSE]
        ELSE IF /\ self.state = State_Idle
                /\ Cardinality(DOMAIN self.outbound_peers)
                       < self.config.num_outbound_peers
        THEN [self |->
                  [self EXCEPT
                      !.outbound_peers = map_insert(@, peer_id, "Pending"),
                      !.controller.connect_request.queue =
                          @ \cup {<<RequestData_new(peer_id), Option_None>>}],
              swarm |-> swarm, refused |-> FALSE]
        ELSE LET closing == close_add_to_queue(self, peer_id, connection_id,
                                EPHEMERAL_CONNECTION_TIMEOUT)
                 step == IF self.state.tag = "Extending"
                         THEN make_extension_step(closing, swarm, selection)
                         ELSE [self |-> closing, swarm |-> swarm]
             IN  [self |-> step.self, swarm |-> step.swarm, refused |-> FALSE]
    ELSE
        IF Cardinality(self.inbound_peers) < self.config.num_inbound_peers
        THEN [self  |-> [self EXCEPT !.inbound_peers = @ \cup {peer_id}],
              swarm |-> swarm, refused |-> FALSE]
        ELSE [self  |-> close_add_to_queue(self, peer_id, connection_id,
                                           Option_None),
              swarm |-> swarm, refused |-> TRUE]

\* The engine and swarm a step leaves, with the handler's return value.
with_result(r, result) ==
    [self |-> r.self, swarm |-> r.swarm, result |-> result]

\* handle_new_peer is written as its steps in program order; each step is
\* given what the steps before it computed and ends by taking the next one.

\* Lines 358-380: an extension is started again when a bootstrap node was
\* just identified, the engine is Idle and outbound peers are missing (Full
\* mode only).
handle_new_peer_rediscovery(self, swarm, result, was_identified_as_bootstrap, selection) ==
    IF /\ was_identified_as_bootstrap
       /\ self.state = State_Idle
       /\ Cardinality(DOMAIN self.outbound_peers)
              < self.config.num_outbound_peers
       /\ self.config.bootstrap_protocol = "Full"
    THEN with_result(
             initiate_extension_with_target(
                 self, swarm, self.config.num_outbound_peers, selection),
             result)
    ELSE [self |-> self, swarm |-> swarm, result |-> result]

\* Lines 323-337: in Kademlia mode (discovery enabled) the first stored
\* address goes to the routing table.
handle_new_peer_kademlia(role, is_already_connected, peer_id, filtered_info, was_identified_as_bootstrap, selection) ==
    handle_new_peer_rediscovery(
        role.self,
        IF /\ is_enabled(role.self)
           /\ role.self.config.bootstrap_protocol = "Kademlia"
           /\ Len(filtered_info.listen_addrs) # 0
        THEN [role.swarm EXCEPT !.routing_table =
                 @ \cup {<<peer_id, Head(filtered_info.listen_addrs)>>}]
        ELSE role.swarm,
        is_already_connected \/ role.refused,
        was_identified_as_bootstrap, selection)

\* Lines 248-356: the connection is recorded, or closed at once when the cap
\* is reached (the handler then returns), and the peer gets its role.
handle_new_peer_connection(recorded, swarm, connection_id, peer_id, filtered_info, was_identified_as_bootstrap, selection) ==
    IF recorded.closed
    THEN [self |-> recorded.self, swarm |-> swarm, result |-> TRUE]
    ELSE handle_new_peer_kademlia(
             classify_connection(recorded.self, swarm, connection_id, peer_id,
                                 selection),
             recorded.is_already_connected, peer_id, filtered_info,
             was_identified_as_bootstrap, selection)

\* Lines 207-235: the filtered information is stored for the peer; a peer
\* that was not known counts as discovered.
handle_new_peer_store(self, swarm, connection_id, peer_id, filtered_info, was_identified_as_bootstrap, selection) ==
    handle_new_peer_connection(
        record_connection(
            [self EXCEPT
                !.discovered_peers = map_insert(@, peer_id, filtered_info),
                !.metrics.total_discovered =
                    IF peer_id \in DOMAIN self.discovered_peers
                    THEN @ ELSE @ + 1],
            peer_id, connection_id),
        swarm, connection_id, peer_id, filtered_info,
        was_identified_as_bootstrap, selection)

\* Lines 182-205: the in-progress dial of the connection is removed (when
\* there is none, every in-progress dial of the peer is), and the advertised
\* addresses are filtered against our external and listener addresses.
handle_new_peer_dial(self, swarm, connection_id, peer_id, info, was_identified_as_bootstrap, selection) ==
    handle_new_peer_store(
        IF connection_id \in DOMAIN self.controller.dial.in_progress
        THEN [self EXCEPT !.controller.dial.in_progress =
                 map_remove(@, connection_id)]
        ELSE dial_remove_matching_in_progress_connections(self, peer_id),
        swarm, connection_id, peer_id,
        [listen_addrs |->
            filter_reachable_addresses(
                info.listen_addrs,
                swarm.external_addresses \o swarm.listeners)],
        was_identified_as_bootstrap, selection)

\* Lines 169-180: a peer just bound to a relay entry is asked for a
\* reservation by listening on /p2p/<peer>/p2p-circuit.
handle_new_peer_relay(relay, swarm, connection_id, peer_id, info, was_identified_as_bootstrap, selection) ==
    handle_new_peer_dial(
        relay.self,
        IF relay.result
        THEN [swarm EXCEPT !.listen_on =
                 Append(@, <<P2p(peer_id), P2pCircuit>>)]
        ELSE swarm,
        connection_id, peer_id, info, was_identified_as_bootstrap, selection)

\* Lines 163-170: the peer is matched against the bootstrap entries, then,
\* by its non-loopback addresses, against the relay entries.
handle_new_peer_bootstrap(bootstrap, swarm, connection_id, peer_id, info, selection) ==
    handle_new_peer_relay(
        update_relay_server_peer_id(
            bootstrap.self, peer_id,
            filter_loopback_addresses(info.listen_addrs)),
        swarm, connection_id, peer_id, info, bootstrap.result, selection)

\* Variant of handle_new_peer that does not look for the connection among
\* those recorded for the peer.
handle_new_peer_again(self, swarm, connection_id, peer_id, info, selection) ==
    handle_new_peer_bootstrap(
        update_bootstrap_node_peer_id(self, peer_id),
        swarm, connection_id, peer_id, info, selection)

\* handle_new_peer(swarm, connection_id, peer_id, info); `selection` is the
\* selector's order of preference, should an extension step be made.  An
\* identify on a connection already recorded for the peer changes nothing.
handle_new_peer(self, swarm, connection_id, peer_id, info, selection) ==
    IF /\ peer_id \in DOMAIN self.active_connections
       /\ Vec_contains(self.active_connections[peer_id], connection_id)
    THEN [self |-> self, swarm |-> swarm, result |-> TRUE]
    ELSE handle_new_peer_bootstrap(
             update_bootstrap_node_peer_id(self, peer_id),
             swarm, connection_id, peer_id, info, selection)

\* ------------------------------------------------ the engine in its swarm
\* The swarm and behaviour as the handlers use them: our peer id and
\* addresses, the established connections, the listens asked for, the
\* Kademlia routing table, the requests sent and the last response sent.
\* Connection ids and outbound request ids are handed out in increasing order.
Swarm_new(local_peer_id, listeners, external_addresses) ==
    [local_peer_id      |-> local_peer_id,
     listeners          |-> listeners,
     external_addresses |-> external_addresses,
     next_connection_id |-> 1,
     connections        |-> EmptyMap,
     listen_on          |-> <<>>,
     routing_table      |-> {},
     next_request_id    |-> 1,
     sent_requests      |-> EmptyMap,
     response           |-> Option_None]

LocalPeerId == "L"
DiscoveryPeers == {"P", "Q"}

\* The selector's possible orders of preference.  It is consulted in an
\* extension only, and there is none unless discovery is enabled in Full mode.
Selections(self) ==
    IF is_enabled(self) /\ self.config.bootstrap_protocol = "Full"
    THEN {<<"P", "Q">>, <<"Q", "P">>}
    ELSE {<<"P", "Q">>}

BOOT_ADDR == <<Ip4(1, 2, 3, 4), Tcp(9000)>>
PRIVATE_ADDR == <<Ip4(10, 0, 0, 6), Tcp(9000)>>
LISTEN_ADDR == <<Ip4(10, 0, 0, 5), Tcp(9000)>>

\* What a peer may advertise in identify.
IdentifyAddrLists == { <<BOOT_ADDR>>, <<PRIVATE_ADDR>> }

\* The known peers a requester may list.
KnownPeers ==
    { {}, {<<Option_Some("P"), <<PRIVATE_ADDR>> >>} }

\* Configurations.  num_inbound_peers is read only when discovery is
\* disabled, so the enabled configurations all carry the same.
Configs ==
    [enabled                  : {TRUE},
     bootstrap_protocol       : {"Kademlia", "Full"},
     num_outbound_peers       : 0..MaxOutboundPeers,
     num_inbound_peers        : {MaxInboundPeers},
     max_connections_per_peer : 0..MaxConnectionsPerPeer]
    \cup
    [enabled                  : {FALSE},
     bootstrap_protocol       : {"Kademlia", "Full"},
     num_outbound_peers       : 0..MaxOutboundPeers,
     num_inbound_peers        : 0..MaxInboundPeers,
     max_connections_per_peer : 0..MaxConnectionsPerPeer]

\* The engine as the variables hold it after a handler has run.
BecomeDiscovery(r) ==
    /\ discovery' = r.self
    /\ the_swarm' = r.swarm
    /\ UNCHANGED <<planner_vars, filter_vars>>

\* Discovery::new, under any configuration, in a swarm that listens on one
\* private address and has no connection yet.
DiscoveryInit ==
    /\ \E config \in Configs, bootstrap_nodes \in {<<>>, <<BOOT_ADDR>>} :
           discovery = Discovery_new(config, bootstrap_nodes, <<BOOT_ADDR>>)
    /\ the_swarm = Swarm_new(LocalPeerId, <<LISTEN_ADDR>>, <<>>)
    /\ PlannerIdle
    /\ FilterIdle

\* A bootstrap node is dialed: the dial starts on a new connection id with the
\* first address of the entry and no peer id.
DialBootstrap ==
    \E i \in DOMAIN discovery.bootstrap_nodes :
        /\ the_swarm.next_connection_id <= NumConnections
        /\ BecomeDiscovery(
               [self  |-> [discovery EXCEPT !.controller.dial.in_progress =
                              map_insert(@, the_swarm.next_connection_id,
                                  DialData_new(Option_None,
                                      <<Head(discovery.bootstrap_nodes[i][2])>>))],
                swarm |-> [the_swarm EXCEPT !.next_connection_id = @ + 1]])

\* A dialed connection is established: the dial data of the connection learns
\* the peer id.
DialedConnectionEstablished ==
    \E connection_id \in DOMAIN discovery.controller.dial.in_progress,
       peer_id \in DiscoveryPeers :
        /\ connection_id \notin DOMAIN the_swarm.connections
        /\ BecomeDiscovery(
               [self  |-> [discovery EXCEPT
                              !.controller.dial.in_progress[connection_id].peer_id =
                                  Option_Some(peer_id)],
                swarm |-> [the_swarm EXCEPT !.connections =
                              map_insert(@, connection_id, peer_id)]])

\* A peer opens a connection to us.
IncomingConnectionEstablished ==
    \E peer_id \in DiscoveryPeers :
        /\ the_swarm.next_connection_id <= NumConnections
        /\ BecomeDiscovery(
               [self  |-> discovery,
                swarm |-> [the_swarm EXCEPT
                              !.next_connection_id = @ + 1,
                              !.connections =
                                  map_insert(@, the_swarm.next_connection_id,
                                             peer_id)]])

\* Identify information arrives on an established connection.
Identify ==
    \E connection_id \in DOMAIN the_swarm.connections,
       listen_addrs \in IdentifyAddrLists,
       selection \in Selections(discovery) :
        BecomeDiscovery(
            handle_new_peer(discovery, the_swarm, connection_id,
                            the_swarm.connections[connection_id],
                            [listen_addrs |-> listen_addrs], selection))

DiscoveryNext ==
    \/ DialBootstrap
    \/ DialedConnectionEstablished
    \/ IncomingConnectionEstablished
    \/ Identify

SpecDiscovery == DiscoveryInit /\ [][DiscoveryNext]_vars

\* ---------------------------------------------------- answering requesters
\* Our listener addresses: none, a private one, a wildcard.
ListenerLists ==
    { <<>>, <<LISTEN_ADDR>>, << <<Ip4(0, 0, 0, 0), Tcp(9000)>> >> }

\* An engine that answers peers requests: discovery is enabled in Full mode,
\* with or without a bootstrap node and a relay server.
PeersInit ==
    /\ \E bootstrap_nodes \in {<<>>, <<BOOT_ADDR>>},
          relay_servers \in {<<>>, <<BOOT_ADDR>>} :
           discovery = Discovery_new(
               [enabled                  |-> TRUE,
                bootstrap_protocol       |-> "Full",
                num_outbound_peers       |-> MaxOutboundPeers,
                num_inbound_peers        |-> MaxInboundPeers,
                max_connections_per_peer |-> MaxConnectionsPerPeer],
               bootstrap_nodes, relay_servers)
    /\ \E listeners \in ListenerLists :
           the_swarm = Swarm_new(LocalPeerId, listeners, <<>>)
    /\ PlannerIdle
    /\ FilterIdle

\* A connected peer asks for peers.
PeersRequest ==
    \E connection_id \in DOMAIN the_swarm.connections, peers \in KnownPeers :
        BecomeDiscovery(
            handle_peers_request(discovery, the_swarm,
                                 the_swarm.connections[connection_id], peers))

PeersNext ==
    \/ DialBootstrap
    \/ DialedConnectionEstablished
    \/ IncomingConnectionEstablished
    \/ Identify
    \/ PeersRequest

SpecPeers == PeersInit /\ [][PeersNext]_vars

\* ------------------------------------------------- peers responses
\* What a queried peer may answer: a peer reachable directly together with
\* one behind a relay circuit, a peer we cannot reach directly, a peer behind
\* two relay circuits.
UNREACHABLE_ADDR == <<Ip4(10, 1, 0, 6), Tcp(9000)>>

ReceivedPeers ==
    { { <<Option_Some("Q"), <<PRIVATE_ADDR>> >>,
        <<Option_Some("P"),
          << BOOT_ADDR \o <<P2p("Q"), P2pCircuit, P2p("P")>> >> >> },
      { <<Option_Some("Q"), <<UNREACHABLE_ADDR>> >> },
      { <<Option_None,
          << BOOT_ADDR \o <<P2p("P"), P2pCircuit, P2p("Q"), P2pCircuit,
                            P2p("T")>> >> >> } }

\* An engine that extends from a bootstrap node, with or without a relay
\* server.
ResponseInit ==
    /\ \E relay_servers \in {<<>>, <<BOOT_ADDR>>} :
           discovery = Discovery_new(
               [enabled                  |-> TRUE,
                bootstrap_protocol       |-> "Full",
                num_outbound_peers       |-> MaxOutboundPeers,
                num_inbound_peers        |-> MaxInboundPeers,
                max_connections_per_peer |-> MaxConnectionsPerPeer],
               <<BOOT_ADDR>>, relay_servers)
    /\ the_swarm = Swarm_new(LocalPeerId, <<LISTEN_ADDR>>, <<>>)
    /\ PlannerIdle
    /\ FilterIdle

\* The answer to a peers request in progress arrives.
PeersResponse ==
    \E request_id \in DOMAIN discovery.controller.peers_request.in_progress,
       peers \in ReceivedPeers,
       selection \in Selections(discovery) :
        BecomeDiscovery(
            handle_peers_response(discovery, the_swarm, request_id, peers,
                                  selection))

ResponseNext ==
    \/ DialBootstrap
    \/ DialedConnectionEstablished
    \/ Identify
    \/ PeersResponse

SpecResponse == ResponseInit /\ [][ResponseNext]_vars

\* ------------------------------------------------- discovery disabled
\* An engine with discovery disabled: every peer is inbound, up to
\* num_inbound_peers; a peer may hold as many connections as there are.
InboundInit ==
    /\ \E num_inbound_peers \in 0..MaxInboundPeers,
          max_connections_per_peer \in 1..NumConnections :
           discovery = Discovery_new(
               [enabled                  |-> FALSE,
                bootstrap_protocol       |-> "Kademlia",
                num_outbound_peers       |-> MaxOutboundPeers,
                num_inbound_peers        |-> num_inbound_peers,
                max_connections_per_peer |-> max_connections_per_peer],
               <<BOOT_ADDR>>, <<BOOT_ADDR>>)
    /\ the_swarm = Swarm_new(LocalPeerId, <<LISTEN_ADDR>>, <<>>)
    /\ PlannerIdle
    /\ FilterIdle

SpecInbound == InboundInit /\ [][DiscoveryNext]_vars

\* ------------------------------- two bootstrap nodes, two relay servers
BOOT_ADDR_2 == <<Ip4(5, 6, 7, 8), Tcp(9000)>>

\* An engine configured with two bootstrap addresses and two relay addresses
\* (one entry each).
BootstrapInit ==
    /\ \E bootstrap_protocol \in {"Kademlia", "Full"} :
           discovery = Discovery_new(
               [enabled                  |-> TRUE,
                bootstrap_protocol       |-> bootstrap_protocol,
                num_outbound_peers       |-> MaxOutboundPeers,
                num_inbound_peers        |-> MaxInboundPeers,
                max_connections_per_peer |-> MaxConnectionsPerPeer],
               <<BOOT_ADDR, BOOT_ADDR_2>>, <<BOOT_ADDR, PRIVATE_ADDR>>)
    /\ the_swarm = Swarm_new(LocalPeerId, <<LISTEN_ADDR>>, <<>>)
    /\ PlannerIdle
    /\ FilterIdle

SpecBootstrap == BootstrapInit /\ [][DiscoveryNext]_vars

\* ------------------------------------------------- extension and retries
\* An engine that extends: discovery enabled in either mode, with or without
\* a bootstrap node.
ExtensionInit ==
    /\ \E bootstrap_nodes \in {<<>>, <<BOOT_ADDR>>},
          bootstrap_protocol \in {"Kademlia", "Full"} :
           discovery = Discovery_new(
               [enabled                  |-> TRUE,
                bootstrap_protocol       |-> bootstrap_protocol,
                num_outbound_peers       |-> MaxOutboundPeers,
                num_inbound_peers        |-> MaxInboundPeers,
                max_connections_per_peer |-> MaxConnectionsPerPeer,
                request_max_retries      |-> RequestMaxRetries],
               bootstrap_nodes, <<>>)
    /\ the_swarm = Swarm_new(LocalPeerId, <<LISTEN_ADDR>>, <<>>)
    /\ PlannerIdle
    /\ FilterIdle

\* The periodic tick.
Tick ==
    /\ the_swarm.next_request_id <= MaxRequests
    /\ \E selection \in Selections(discovery) :
           BecomeDiscovery(
               maybe_trigger_rediscovery(discovery, the_swarm, selection))

\* on_network_event, OutboundFailure of a request that is a peers request in
\* progress.
PeersRequestFailed ==
    \E request_id \in DOMAIN discovery.controller.peers_request.in_progress,
       selection \in Selections(discovery) :
        BecomeDiscovery(
            handle_failed_peers_request(discovery, the_swarm, request_id,
                                        selection))

\* A queued peers request is due: it leaves the queue and is sent again.
RetryPeersRequest ==
    \E entry \in discovery.controller.peers_request.queue :
        BecomeDiscovery(
            peers_request_peer(
                [discovery EXCEPT !.controller.peers_request.queue =
                    @ \ {entry}],
                the_swarm, entry[1]))

\* The connections of an outbound peer are closed: the peer is lost.
OutboundPeerLost ==
    \E peer_id \in DOMAIN discovery.outbound_peers :
        BecomeDiscovery(
            [self  |-> [discovery EXCEPT
                           !.outbound_peers = map_remove(@, peer_id),
                           !.active_connections = map_remove(@, peer_id)],
             swarm |-> [the_swarm EXCEPT !.connections =
                           [c \in {d \in DOMAIN @ : @[d] # peer_id} |-> @[c]]]])

ExtensionNext ==
    \/ DialBootstrap
    \/ DialedConnectionEstablished
    \/ IncomingConnectionEstablished
    \/ Identify
    \/ Tick
    \/ PeersRequestFailed
    \/ RetryPeersRequest
    \/ OutboundPeerLost

\* Requests in progress keep failing and queued requests are sent when due.
SpecExtension ==
    /\ ExtensionInit
    /\ [][ExtensionNext]_vars
    /\ WF_vars(PeersRequestFailed)
    /\ WF_vars(RetryPeersRequest)

\* An engine with discovery disabled that is configured for Full mode, with
\* its periodic tick.
DisabledInit ==
    /\ \E bootstrap_nodes \in {<<>>, <<BOOT_ADDR>>},
          max_connections_per_peer \in 1..NumConnections :
           discovery = Discovery_new(
               [enabled                  |-> FALSE,
                bootstrap_protocol       |-> "Full",
                num_outbound_peers       |-> MaxOutboundPeers,
                num_inbound_peers        |-> MaxInboundPeers,
                max_connections_per_peer |-> max_connections_per_peer],
               bootstrap_nodes, <<>>)
    /\ the_swarm = Swarm_new(LocalPeerId, <<LISTEN_ADDR>>, <<>>)
    /\ PlannerIdle
    /\ FilterIdle

DisabledNext ==
    \/ DialBootstrap
    \/ DialedConnectionEstablished
    \/ IncomingConnectionEstablished
    \/ Identify
    \/ Tick

SpecDisabled == DisabledInit /\ [][DisabledNext]_vars

\* ------------------------------------------------- vocabulary of the claims
\* Height h lies in the range of some pending request of reqs.
Covered(reqs, h) == \E id \in DOMAIN reqs : contains(reqs[id].range, h)

\* The largest end of a pending range, or floor when that is larger.
Top(reqs, floor) ==
    LET ends == {reqs[id].range.end : id \in DOMAIN reqs} \cup {floor}
    IN  CHOOSE m \in ends : \A e \in ends : e <= m

\* The smallest height >= s that no pending range contains.
SmallestUncoveredFrom(reqs, s) ==
    LET free == {h \in s..(Top(reqs, s) + 1) : ~Covered(reqs, h)}
    IN  CHOOSE h \in free : \A k \in free : h <= k

\* The first uncovered range at or after s: it starts at the smallest uncovered
\* height >= s and runs while heights stay uncovered, for at most batch heights.
FirstUncoveredRange(reqs, s, batch) ==
    LET first == SmallestUncoveredFrom(reqs, s)
        ends == {e \in first..(first + batch - 1) :
                    \A k \in first..e : ~Covered(reqs, k)}
    IN  [start |-> first, end |-> CHOOSE e \in ends : \A x \in ends : x <= e]

Overlap(r1, r2) == r1.start <= r2.end /\ r2.start <= r1.end

PairwiseDisjoint(reqs) ==
    \A a \in DOMAIN reqs, b \in DOMAIN reqs :
        a # b => ~Overlap(reqs[a].range, reqs[b].range)

\* No pending range of the planner ends at or below its last_validated_height.
AllEndAbove(self) ==
    \A id \in DOMAIN self.requests :
        self.requests[id].range.end > self.last_validated_height

\* No pending range of the planner ends at or below its last_validated_height,
\* but for one that ends at height 0 while last_validated_height is 0.
AllEndAboveOrAtZero(self) ==
    \A id \in DOMAIN self.requests :
        \/ self.requests[id].range.end > self.last_validated_height
        \/ /\ self.last_validated_height = 0
           /\ self.requests[id].range.end = 0

\* The starts of the pending ranges that are above height h.
StartsAbove(reqs, h) == {reqs[id].range.start : id \in DOMAIN reqs} \ (0..h)

\* The smallest element of a non-empty set of heights.
Smallest(hs) == CHOOSE h \in hs : \A k \in hs : h <= k

min(a, b) == IF a <= b THEN a ELSE b

\* The entries of a bootstrap or relay list that are bound to the peer.
EntriesOf(entries, peer_id) ==
    {i \in DOMAIN entries : entries[i][1] = Option_Some(peer_id)}

\* From one list of entries to the next, there are as many entries, with the
\* same addresses, and a bound entry keeps its peer.
OnlyBound(entries, later) ==
    /\ Len(later) = Len(entries)
    /\ \A i \in DOMAIN entries :
           /\ later[i][2] = entries[i][2]
           /\ entries[i][1].is_some => later[i][1] = entries[i][1]

\* The addresses handed to the dial queue.
QueuedDialAddrs(self) ==
    UNION {{d.listen_addrs[k] : k \in DOMAIN d.listen_addrs} :
              d \in self.controller.dial.queue}

\* x is an element of the list seq.
InSeq(x, seq) == \E i \in DOMAIN seq : seq[i] = x

\* The number of p2p-circuit markers of an address.
CircuitMarkers(addr) ==
    Cardinality({i \in DOMAIN addr : addr[i].proto = "p2p-circuit"})

\* The IP components of an address, and whether it has one.
HasIp(addr) == \E i \in DOMAIN addr : addr[i].proto \in {"ip4", "ip6"}

FirstIp(addr) ==
    addr[CHOOSE i \in DOMAIN addr :
             /\ addr[i].proto \in {"ip4", "ip6"}
             /\ \A j \in 1..(i - 1) : addr[j].proto \notin {"ip4", "ip6"}]

\* A loopback address: its IP component is 127.0.0.1 or ::1.
LoopbackIp(ip) ==
    \/ (ip.proto = "ip4" /\ ip.ip = <<127, 0, 0, 1>>)
    \/ (ip.proto = "ip6" /\ ip.ip = <<0, 0, 0, 0, 0, 0, 0, 1>>)

LoopbackAddr(addr) == HasIp(addr) /\ LoopbackIp(FirstIp(addr))

\* Private: IPv4 RFC1918, IPv6 fc00::/7 (fc00..fdff) or fe80::/10 (fe80..febf).
PrivateIp(ip) ==
    IF ip.proto = "ip4"
    THEN \/ ip.ip[1] = 10
         \/ (ip.ip[1] = 172 /\ ip.ip[2] \in 16..31)
         \/ (ip.ip[1] = 192 /\ ip.ip[2] = 168)
    ELSE ip.ip[1] \in 64512..65023 \/ ip.ip[1] \in 65152..65215

\* The first 16 bits of two IPs of the same family agree.
SamePrefix16(ip1, ip2) ==
    /\ ip1.proto = ip2.proto
    /\ ip1.ip[1] = ip2.ip[1]
    /\ (ip1.proto = "ip4" => ip1.ip[2] = ip2.ip[2])

\* Reachability of a remote IP from a local IP.
ReachableFromIp(local, remote) ==
    IF PrivateIp(local)
    THEN (PrivateIp(remote) => SamePrefix16(local, remote))
    ELSE ~PrivateIp(remote)

\* The local IPs: the IP components of the non-loopback own addresses.
LocalIps(own) ==
    {FirstIp(own[i]) : i \in {j \in DOMAIN own :
                                HasIp(own[j]) /\ ~LoopbackAddr(own[j])}}

DirectReachable(own, addr) ==
    \E local \in LocalIps(own) : ReachableFromIp(local, FirstIp(addr))

\* The elements of a list.
Elems(seq) == {seq[i] : i \in DOMAIN seq}

\* The relay of a circuit address is the peer named right before its first
\* p2p-circuit marker; the target is the peer named by its last component.
RelayPeer(addr) ==
    addr[(CHOOSE i \in DOMAIN addr :
             /\ addr[i].proto = "p2p-circuit"
             /\ \A j \in 1..(i - 1) : addr[j].proto # "p2p-circuit") - 1].peer

TargetPeer(addr) == addr[Len(addr)].peer

\* A loop-free relay address: one marker, and the relay is not the target.
LoopFree(addr) ==
    /\ CircuitMarkers(addr) = 1
    /\ RelayPeer(addr) # TargetPeer(addr)

\* The peers we hold a recorded connection to.
Connected(self) == DOMAIN self.active_connections

\* The peers that have a connection to us (those a request can come from).
Requesters(swarm) == {swarm.connections[c] : c \in DOMAIN swarm.connections}

\* The candidates of a response to `peer` that lists `peers`, and what the
\* filter makes of a candidate's addresses from the requester's perspective.
Candidates(self, peer, peers) == get_all_peers_except(self, peer) \ peers

FromRequester(self, swarm, peer, candidate) ==
    filter_addresses_with_relay(candidate[2],
                                requester_addrs(self, swarm, peer))

\* The entries emitted for the candidates when `RelayAddrs(target)` is the
\* relay address list used for a target that has relay candidates only: the
\* direct addresses if there are any, else the relay addresses if the peer id
\* is known and there are any, else nothing.
Emitted(self, swarm, peer, peers, RelayAddrs(_)) ==
    LET cands == Candidates(self, peer, peers)
        seen == [c \in cands |-> FromRequester(self, swarm, peer, c)]
        direct == {c \in cands : Len(seen[c].direct) # 0}
        relayed == {c \in cands \ direct :
                       /\ Len(seen[c].relay_candidates) # 0
                       /\ c[1].is_some
                       /\ Len(RelayAddrs(c[1].value)) # 0}
    IN  {<<c[1], seen[c].direct>> : c \in direct}
        \cup {<<c[1], RelayAddrs(c[1].value)>> : c \in relayed}

\* The connections recorded for a peer.
ConnectionsOf(self, peer_id) ==
    IF peer_id \in DOMAIN self.active_connections
    THEN self.active_connections[peer_id] ELSE <<>>

\* An identify on connection_id that handle_new_peer takes to the connection
\* policy: the connection is not yet recorded for its peer and the peer is
\* below its connection cap (a first connection always is).
ReachesPolicy(self, swarm, connection_id) ==
    LET peer_id == swarm.connections[connection_id]
    IN  /\ ~InSeq(connection_id, ConnectionsOf(self, peer_id))
        /\ \/ peer_id \notin DOMAIN self.active_connections
           \/ Len(ConnectionsOf(self, peer_id))
                  < self.config.max_connections_per_peer

\* The peer has no role yet.
Unclassified(self, peer_id) ==
    /\ peer_id \notin DOMAIN self.outbound_peers
    /\ peer_id \notin self.inbound_peers

\* The engine may promote a peer: it is Idle and short of outbound peers.
MayPromote(self) ==
    /\ self.state = State_Idle
    /\ Cardinality(DOMAIN self.outbound_peers) < self.config.num_outbound_peers

\* The close queue entry of an ephemeral connection.
EphemeralClose(peer_id, connection_id) ==
    << <<peer_id, connection_id>>, EPHEMERAL_CONNECTION_TIMEOUT >>

\* The unset bootstrap entries that list the address the dial of
\* connection_id targeted (none when the connection was not dialed).
DialedUnsetEntries(self, connection_id) ==
    IF connection_id \notin DOMAIN self.controller.dial.in_progress THEN {}
    ELSE {i \in DOMAIN self.bootstrap_nodes :
             /\ ~self.bootstrap_nodes[i][1].is_some
             /\ \E k \in DOMAIN self.controller.dial.in_progress[
                                    connection_id].listen_addrs :
                    Vec_contains(self.bootstrap_nodes[i][2],
                                 self.controller.dial.in_progress[
                                     connection_id].listen_addrs[k])}

\* The relay entries bound to the peer, and the unset ones that hold one of
\* the addresses.
RelayEntriesOf(self, peer_id) ==
    {i \in DOMAIN self.relay_servers :
        self.relay_servers[i][1] = Option_Some(peer_id)}

UnsetRelayEntries(self, addrs) ==
    {i \in DOMAIN self.relay_servers :
        /\ ~self.relay_servers[i][1].is_some
        /\ \E k \in DOMAIN addrs : Vec_contains(self.relay_servers[i][2],
                                                addrs[k])}

\* The unset bootstrap entries that hold one of the addresses.
UnsetBootstrapEntries(self, addrs) ==
    {i \in DOMAIN self.bootstrap_nodes :
        /\ ~self.bootstrap_nodes[i][1].is_some
        /\ \E k \in DOMAIN addrs : Vec_contains(self.bootstrap_nodes[i][2],
                                                addrs[k])}

\* The listens opened on the relay circuit of the peer.
CircuitListens(swarm, peer_id) ==
    {k \in DOMAIN swarm.listen_on :
        swarm.listen_on[k] = <<P2p(peer_id), P2pCircuit>>}

\* The peers requests that wait for an answer or for their retry.
RequestsInProgress(self) == self.controller.peers_request.in_progress
RequestsQueued(self) == self.controller.peers_request.queue

\* A peers request to the peer is in progress or queued.
Awaited(self, peer_id) ==
    \/ \E id \in DOMAIN RequestsInProgress(self) :
           RequestsInProgress(self)[id].peer_id = peer_id
    \/ \E entry \in RequestsQueued(self) : entry[1].peer_id = peer_id

\* The peers marked as queried in the current extension.
Queried(self) == self.controller.peers_request.done_on

\* The ids of the requests sent by the step from swarm to after.
NewlySent(swarm, after) ==
    DOMAIN after.sent_requests \ DOMAIN swarm.sent_requests

\* peers_request_peer, called in (self, swarm) with a request to peer_id at
\* retry `count`, does nothing for a queried peer unless count is above 0, and
\* tracks what it sends under the id of the request.
RequestSentOnceAndTracked(self, swarm, peer_id, count) ==
    LET request_data == [peer_id |-> peer_id, retry |-> [count |-> count]]
        res == peers_request_peer(self, swarm, request_data)
    IN  /\ (peer_id \in Queried(self) /\ count = 0)
               => (res.self = self /\ res.swarm = swarm)
        /\ \A id \in NewlySent(swarm, res.swarm) :
               /\ id \in DOMAIN RequestsInProgress(res.self)
               /\ RequestsInProgress(res.self)[id] = request_data
               /\ res.swarm.sent_requests[id].peer_id = peer_id
               /\ peer_id \in Queried(res.self)

\* The step opens an extension: the engine was not extending, or the queried
\* peers were reset and the one peer queried since is the one a request of the
\* step is sent to (a handler may end an extension and start the next).
OpensExtension ==
    \/ discovery.state.tag # "Extending"
    \/ \E id \in NewlySent(the_swarm, the_swarm') :
           Queried(discovery') = {the_swarm'.sent_requests[id].peer_id}

\* A step of the engine sends an initial request only to a peer that was not
\* queried in the extension the step is in, tracks every request it sends, and
\* keeps the queried peers for as long as the extension lasts.
InitialRequestsOncePerExtension ==
    /\ \A id \in NewlySent(the_swarm, the_swarm') :
           /\ id \in DOMAIN RequestsInProgress(discovery')
           /\ RequestsInProgress(discovery')[id].peer_id
                  = the_swarm'.sent_requests[id].peer_id
           /\ RequestsInProgress(discovery')[id].peer_id \in Queried(discovery')
           /\ RequestsInProgress(discovery')[id].retry.count = 0
                  => \/ RequestsInProgress(discovery')[id].peer_id
                            \notin Queried(discovery)
                     \/ OpensExtension
    /\ (discovery.state.tag = "Extending" /\ discovery'.state.tag = "Extending")
           => \/ Queried(discovery) \subseteq Queried(discovery')
              \/ OpensExtension

\* ------------------------------------------------------------------ claims
\* C1: in every state reached from new by insert, remove and
\* remove_requests_up_to, next_uncovered_range.start is above
\* last_validated_height and is the smallest height above
\* last_validated_height that no pending range contains.
C1_NextStartIsSmallestUncovered ==
    /\ next_uncovered_range.start > last_validated_height
    /\ next_uncovered_range.start =
           SmallestUncoveredFrom(requests, last_validated_height + 1)

\* C2 as claimed: whatever ids and ranges insert is called with, the pending
\* ranges are pairwise disjoint.
C2_PendingPairwiseDisjoint == PairwiseDisjoint(requests)

\* C2, amended: the pending ranges stay pairwise disjoint as long as every
\* insert is called with a request id that is not pending and a range that
\* overlaps no pending range; remove and remove_requests_up_to keep them
\* disjoint whatever their argument.
C2_DisjointnessPreserved ==
    PairwiseDisjoint(requests) =>
        /\ \A request_id \in RequestIds \ DOMAIN requests,
              range \in NonEmptyRanges, peer_id \in PeerIds :
               (\A other \in DOMAIN requests :
                    ~Overlap(range, requests[other].range))
               => PairwiseDisjoint(insert(Self, request_id, range, peer_id).requests)
        /\ \A request_id \in RequestIds :
               PairwiseDisjoint(remove(Self, request_id).self.requests)
        /\ \A height \in Heights :
               PairwiseDisjoint(remove_requests_up_to(Self, height).requests)

\* Two requests are pending for adjacent, disjoint ranges.
C2_Witness ==
    /\ Cardinality(DOMAIN requests) >= 2
    /\ PairwiseDisjoint(requests)
    /\ \E a \in DOMAIN requests, b \in DOMAIN requests :
           requests[a].range.end + 1 = requests[b].range.start

\* C3: inserting the current next_uncovered_range R under a new request id and
\* then removing that request returns (R, peer) and makes next_uncovered_range
\* R again.
C3_RemoveReexposesRange ==
    \A request_id \in RequestIds \ DOMAIN requests, peer_id \in PeerIds :
        LET R == next_uncovered_range
            inserted == insert(Self, request_id, R, peer_id)
            removed == remove(inserted, request_id)
        IN  /\ removed.result = Option_Some(<<R, peer_id>>)
            /\ removed.self.next_uncovered_range = R

C5_LastValidatedMonotonic ==
    [][last_validated_height' >= last_validated_height]_vars

\* Decisions have moved last_validated_height to the top of the heights, so
\* that every lower height is a regressing argument.
C5_Witness ==
    /\ last_validated_height = MaxHeight
    /\ DOMAIN requests # {}

C7_NextRangeWellFormed ==
    /\ next_uncovered_range.start <= next_uncovered_range.end
    /\ \A id \in DOMAIN requests :
           ~Overlap(next_uncovered_range, requests[id].range)
    /\ next_uncovered_range.end - next_uncovered_range.start + 1 <= max_batch_size

\* The next range is cut short by a pending range that starts right after it.
C7_Witness ==
    /\ next_uncovered_range.end - next_uncovered_range.start + 1 < max_batch_size
    /\ \E id \in DOMAIN requests :
           requests[id].range.start = next_uncovered_range.end + 1

\* C8 as claimed: in every reachable state no pending request has a range
\* that ends at or below last_validated_height.
C8_NoPendingEndsAtOrBelow == AllEndAbove(Self)

\* C8, amended: no pending range ends at or below last_validated_height as
\* long as no insert is called with a range that ends at or below
\* last_validated_height; remove and remove_requests_up_to keep it so whatever
\* their argument (a decision at h drops every request that ends at or below h).
C8_EndsAbovePreserved ==
    AllEndAbove(Self) =>
        /\ \A request_id \in RequestIds, range \in NonEmptyRanges,
              peer_id \in PeerIds :
               range.end > last_validated_height
               => AllEndAbove(insert(Self, request_id, range, peer_id))
        /\ \A request_id \in RequestIds :
               AllEndAbove(remove(Self, request_id).self)
        /\ \A height \in Heights :
               AllEndAbove(remove_requests_up_to(Self, height))

\* Decisions have been made, every pending request ends above the last one,
\* and a further decision would drop a pending request.
C8_Witness ==
    /\ last_validated_height > MaxInitHeight
    /\ AllEndAbove(Self)
    /\ \E id \in DOMAIN requests, h \in Heights :
           /\ requests[id].range.end = h
           /\ id \notin DOMAIN remove_requests_up_to(Self, h).requests

\* C9: remove_requests_up_to(h) followed by remove_requests_up_to(h2) with
\* h2 >= h leaves the planner as the single call remove_requests_up_to(h2).
C9_RemoveUpToComposes ==
    \A h \in Heights, h2 \in Heights :
        h2 >= h =>
            remove_requests_up_to(remove_requests_up_to(Self, h), h2)
                = remove_requests_up_to(Self, h2)

\* Both calls act: the first drops a request and the second drops another.
C9_Witness ==
    \E h \in Heights, h2 \in Heights :
        LET first == remove_requests_up_to(Self, h)
            second == remove_requests_up_to(first, h2)
        IN  /\ h2 > h
            /\ DOMAIN first.requests # DOMAIN requests
            /\ DOMAIN second.requests # DOMAIN first.requests
            /\ second.next_uncovered_range # first.next_uncovered_range

\* C10 as claimed: when a pending request a..=b is answered for the prefix
\* a..=e only (e < b), remove_requests_up_to(e) makes next_uncovered_range
\* start at e + 1.
C10_TailOfferedAfterDecision ==
    \A id \in DOMAIN requests, e \in Heights :
        LET R == requests[id].range
        IN  (R.start <= e /\ e < R.end /\ e >= last_validated_height)
            => remove_requests_up_to(Self, e).next_uncovered_range.start = e + 1

\* C10, amended: remove_requests_up_to(e) keeps the pending request a..=b
\* (b > e) and next_uncovered_range then starts after b; the tail is offered
\* again, next_uncovered_range starting at e + 1, when the request has first
\* been retired with remove (no other pending range containing e + 1).
C10_TailOfferedOnceRetired ==
    \A id \in DOMAIN requests, e \in Heights :
        LET R == requests[id].range
            kept == remove_requests_up_to(Self, e)
            retired == remove(Self, id).self
        IN  (R.start <= e /\ e < R.end /\ e >= last_validated_height)
            => /\ id \in DOMAIN kept.requests
               /\ kept.next_uncovered_range.start > R.end
               /\ (\A other \in DOMAIN requests \ {id} :
                       ~contains(requests[other].range, e + 1))
                  => remove_requests_up_to(retired, e)
                         .next_uncovered_range.start = e + 1

\* A request a..=b the planner has moved past is pending, a prefix a..=e of it
\* can be decided, and retiring it before the decision offers e + 1 again.
C10_Witness ==
    \E id \in DOMAIN requests, e \in Heights :
        LET R == requests[id].range
        IN  /\ R.start <= e /\ e < R.end /\ e >= last_validated_height
            /\ next_uncovered_range.start = R.end + 1
            /\ remove_requests_up_to(remove(Self, id).self, e)
                   .next_uncovered_range.start = e + 1

\* C11 as claimed: for every initial_height and every max_batch_size, the
\* planner new returns has no pending request, last_validated_height = initial_height - 1 (or
\* initial_height when it is 0) and next_uncovered_range =
\* initial_height ..= initial_height + max_batch_size - 1.
C11_NewPostcondition ==
    \A initial_height \in 0..MaxInitHeight, batch \in 0..MaxBatchSize :
        LET self == new(initial_height, batch)
        IN  Self = self =>
                /\ DOMAIN self.requests = {}
                /\ self.last_validated_height =
                       IF initial_height > 0 THEN initial_height - 1
                                             ELSE initial_height
                /\ self.next_uncovered_range =
                       [start |-> initial_height,
                        end   |-> initial_height + batch - 1]

\* C11, amended: the same for every max_batch_size >= 1; a max_batch_size of 0
\* is raised to 1, so that new(initial_height, 0) is new(initial_height, 1)
\* and next_uncovered_range is the single height initial_height.
C11_NewPostconditionRaised ==
    \A initial_height \in 0..MaxInitHeight, batch \in 0..MaxBatchSize :
        LET self == new(initial_height, batch)
            effective == IF batch = 0 THEN 1 ELSE batch
        IN  Self = self =>
                /\ DOMAIN self.requests = {}
                /\ self.last_validated_height =
                       IF initial_height > 0 THEN initial_height - 1
                                             ELSE initial_height
                /\ self.max_batch_size = effective
                /\ self.next_uncovered_range =
                       [start |-> initial_height,
                        end   |-> initial_height + effective - 1]
                /\ ~self.panicked

\* The planner is as new(initial_height, 0) leaves it, for an initial_height
\* that has a predecessor: one height is offered.
C11_Witness ==
    /\ Self = new(MaxInitHeight, 0)
    /\ last_validated_height = MaxInitHeight - 1
    /\ next_uncovered_range = [start |-> MaxInitHeight, end |-> MaxInitHeight]

\* C12: a non-loopback peer address without p2p-circuit marker that has an IP
\* component is classified direct iff it is reachable from at least one local
\* IP ((private, private): same /16; (private, public) and (public, public):
\* reachable; (public, private): not), and is a relay candidate otherwise; one
\* without an IP component is direct.  Stated for a node that has a local IP.
C12_DirectIffReachable ==
    (filtered.is_some /\ LocalIps(input_own_addrs) # {}) =>
        \A i \in DOMAIN input_addrs :
            LET addr == input_addrs[i]
                direct == InSeq(addr, filtered.value.direct)
                relay == InSeq(addr, filtered.value.relay_candidates)
            IN  (~LoopbackAddr(addr) /\ CircuitMarkers(addr) = 0) =>
                    IF HasIp(addr)
                    THEN /\ direct <=> DirectReachable(input_own_addrs, addr)
                         /\ relay <=> ~DirectReachable(input_own_addrs, addr)
                    ELSE direct /\ ~relay

\* C13: an address with more than one p2p-circuit marker is in neither list
\* filter_addresses_with_relay returns and not in the list
\* filter_reachable_addresses returns, whatever the input list and the own
\* addresses.
C13_DoubleRelayDropped ==
    \A i \in DOMAIN input_addrs :
        CircuitMarkers(input_addrs[i]) > 1 =>
            /\ filtered.is_some =>
                   /\ ~InSeq(input_addrs[i], filtered.value.direct)
                   /\ ~InSeq(input_addrs[i], filtered.value.relay_candidates)
            /\ reachable.is_some => ~InSeq(input_addrs[i], reachable.value)

\* C14: an address with exactly one p2p-circuit marker is never in the direct
\* list of filter_addresses_with_relay nor in the list of
\* filter_reachable_addresses, whatever the input list and the own addresses
\* (none, or loopback only, included).
C14_CircuitNeverDirect ==
    \A i \in DOMAIN input_addrs :
        CircuitMarkers(input_addrs[i]) = 1 =>
            /\ filtered.is_some => ~InSeq(input_addrs[i], filtered.value.direct)
            /\ reachable.is_some => ~InSeq(input_addrs[i], reachable.value)

\* C18: filtering is idempotent: the list filter_reachable_addresses returned,
\* filtered again against the same own addresses, is returned as it is, and
\* the direct list of filter_addresses_with_relay, filtered again, is the
\* direct list again, with no relay candidate.
C18_FilterIdempotent ==
    /\ reachable.is_some =>
           filter_reachable_addresses(reachable.value, input_own_addrs)
               = reachable.value
    /\ filtered.is_some =>
           filter_addresses_with_relay(filtered.value.direct, input_own_addrs)
               = [direct |-> filtered.value.direct, relay_candidates |-> <<>>]

\* A node with a local IP has filtered a list of two or more addresses and
\* kept some of them, but not all.
C18_Witness ==
    /\ reachable.is_some
    /\ LocalIps(input_own_addrs) # {}
    /\ Len(reachable.value) >= 1
    /\ Len(reachable.value) < Len(input_addrs)

\* C19: the direct and relay_candidates lists of filter_addresses_with_relay
\* have no address in common, and every address of either list is one of the
\* input addresses.
C19_ListsDisjointFromInput ==
    filtered.is_some =>
        LET direct == filtered.value.direct
            relay == filtered.value.relay_candidates
        IN  /\ \A i \in DOMAIN direct : ~InSeq(direct[i], relay)
            /\ \A i \in DOMAIN direct : InSeq(direct[i], input_addrs)
            /\ \A i \in DOMAIN relay : InSeq(relay[i], input_addrs)

\* The filter has put one address in each list.
C19_Witness ==
    /\ filtered.is_some
    /\ Len(filtered.value.direct) >= 1
    /\ Len(filtered.value.relay_candidates) >= 1

\* C15: relay synthesis is loop-free: in every state of the engine, for every
\* target peer, every address construct_relay_addresses builds from the relay
\* entries and every address construct_relay_addresses_via_self builds from
\* our listeners has exactly one p2p-circuit marker and a relay peer that is
\* not the target.
C15_RelaySynthesisLoopFree ==
    \A target_peer_id \in DiscoveryPeers :
        \A addr \in Elems(construct_relay_addresses(discovery, target_peer_id))
                    \cup Elems(construct_relay_addresses_via_self(
                                   discovery, the_swarm, target_peer_id)) :
            LoopFree(addr)

\* C16: in every state of the engine, the response to a peers request of any
\* connected requester, whatever known peers it lists, holds no entry that
\* names the requester and no entry the requester listed.
C16_ResponseWithoutRequesterAndKnown ==
    \A peer \in Requesters(the_swarm), peers \in KnownPeers :
        \A entry \in peers_response(discovery, the_swarm, peer, peers) :
            /\ entry[1] # Option_Some(peer)
            /\ entry \notin peers

C20_ConnectionsWithinCap ==
    /\ \A peer_id \in DiscoveryPeers :
           Len(ConnectionsOf(discovery, peer_id))
               <= discovery.config.max_connections_per_peer
    /\ \A connection_id \in DOMAIN the_swarm.connections,
          listen_addrs \in IdentifyAddrLists,
          selection \in Selections(discovery) :
           LET peer_id == the_swarm.connections[connection_id]
               after == handle_new_peer(discovery, the_swarm, connection_id,
                                        peer_id,
                                        [listen_addrs |-> listen_addrs],
                                        selection).self
           IN  (/\ ~InSeq(connection_id, ConnectionsOf(discovery, peer_id))
                /\ Len(ConnectionsOf(discovery, peer_id))
                       = discovery.config.max_connections_per_peer)
               => /\ ~InSeq(connection_id, ConnectionsOf(after, peer_id))
                  /\ << <<peer_id, connection_id>>, Option_None >>
                         \in after.controller.close.queue

C23_InboundUpToLimit ==
    ~is_enabled(discovery) =>
        /\ Cardinality(discovery.inbound_peers)
               <= discovery.config.num_inbound_peers
        /\ \A connection_id \in DOMAIN the_swarm.connections,
              listen_addrs \in IdentifyAddrLists,
              selection \in Selections(discovery) :
               LET peer_id == the_swarm.connections[connection_id]
                   after == handle_new_peer(discovery, the_swarm,
                                            connection_id, peer_id,
                                            [listen_addrs |-> listen_addrs],
                                            selection).self
                   refusal == << <<peer_id, connection_id>>, Option_None >>
               IN  ReachesPolicy(discovery, the_swarm, connection_id)
                   => IF \/ peer_id \in discovery.inbound_peers
                         \/ Cardinality(discovery.inbound_peers)
                                < discovery.config.num_inbound_peers
                      THEN /\ peer_id \in after.inbound_peers
                           /\ refusal \notin after.controller.close.queue
                      ELSE /\ peer_id \notin after.inbound_peers
                           /\ refusal \in after.controller.close.queue

\* C24: when identify arrives for a peer on an established connection whose
\* dial is in progress and targeted an address of a bootstrap entry with unset
\* peer id, that entry is bound to the peer afterwards and the dial of the
\* connection is no longer in progress.
C24_BootstrapEntryBound ==
    \A connection_id \in DOMAIN the_swarm.connections,
       listen_addrs \in IdentifyAddrLists,
       selection \in Selections(discovery) :
        LET peer_id == the_swarm.connections[connection_id]
            after == handle_new_peer(discovery, the_swarm, connection_id,
                                     peer_id, [listen_addrs |-> listen_addrs],
                                     selection).self
        IN  \A i \in DialedUnsetEntries(discovery, connection_id) :
                /\ after.bootstrap_nodes[i]
                       = <<Option_Some(peer_id), discovery.bootstrap_nodes[i][2]>>
                /\ connection_id \notin DOMAIN after.controller.dial.in_progress

\* C25: an identify on a connection not yet recorded, whose advertised
\* addresses hold an address of a relay entry with unset peer id, leaves that
\* entry bound to the peer and a listen on /p2p/<peer>/p2p-circuit opened; in
\* every state at most one such listen has been opened per peer.
C25_RelayEntryBound ==
    /\ \A peer_id \in DiscoveryPeers :
           Cardinality(CircuitListens(the_swarm, peer_id)) <= 1
    /\ \A connection_id \in DOMAIN the_swarm.connections,
          listen_addrs \in IdentifyAddrLists,
          selection \in Selections(discovery) :
           LET peer_id == the_swarm.connections[connection_id]
               after == handle_new_peer(discovery, the_swarm, connection_id,
                                        peer_id,
                                        [listen_addrs |-> listen_addrs],
                                        selection)
           IN  ~InSeq(connection_id, ConnectionsOf(discovery, peer_id))
               => \A i \in UnsetRelayEntries(discovery, listen_addrs) :
                      /\ after.self.relay_servers[i]
                             = <<Option_Some(peer_id),
                                 discovery.relay_servers[i][2]>>
                      /\ CircuitListens(after.swarm, peer_id) # {}

\* C25, amended: a peer is bound to one relay entry at most and has one
\* circuit listen opened exactly when it is bound.  An identify on a
\* connection not yet recorded, of a peer not bound to a relay entry, whose
\* advertised addresses hold an address of an unset relay entry, binds the
\* first such entry to the peer and opens the listen; any other identify
\* leaves the relay entries and the listens as they are.
C25_RelayPeerBoundOnce ==
    /\ \A peer_id \in DiscoveryPeers :
           /\ Cardinality(RelayEntriesOf(discovery, peer_id)) <= 1
           /\ Cardinality(CircuitListens(the_swarm, peer_id))
                  = Cardinality(RelayEntriesOf(discovery, peer_id))
    /\ \A connection_id \in DOMAIN the_swarm.connections,
          listen_addrs \in IdentifyAddrLists,
          selection \in Selections(discovery) :
           LET peer_id == the_swarm.connections[connection_id]
               after == handle_new_peer(discovery, the_swarm, connection_id,
                                        peer_id,
                                        [listen_addrs |-> listen_addrs],
                                        selection)
               unset == UnsetRelayEntries(discovery, listen_addrs)
               first == CHOOSE i \in unset : \A j \in unset : i <= j
           IN  IF /\ ~InSeq(connection_id, ConnectionsOf(discovery, peer_id))
                  /\ RelayEntriesOf(discovery, peer_id) = {}
                  /\ unset # {}
               THEN /\ after.self.relay_servers =
                           [discovery.relay_servers EXCEPT
                               ![first][1] = Option_Some(peer_id)]
                    /\ after.swarm.listen_on =
                           Append(the_swarm.listen_on,
                                  <<P2p(peer_id), P2pCircuit>>)
               ELSE /\ after.self.relay_servers = discovery.relay_servers
                    /\ after.swarm.listen_on = the_swarm.listen_on

\* A peer is bound to a relay entry and its circuit listen is open, while
\* another relay entry is still unset.
C25_Witness ==
    \E peer_id \in DiscoveryPeers :
        /\ RelayEntriesOf(discovery, peer_id) # {}
        /\ CircuitListens(the_swarm, peer_id) # {}
        /\ \E i \in DOMAIN discovery.relay_servers :
               ~discovery.relay_servers[i][1].is_some

\* C26: the failure of a peers request in progress takes it out of the
\* requests in progress; while it was retried fewer than request_max_retries
\* times it is queued again with one more retry counted and a backoff delay,
\* and nothing else changes; otherwise it is dropped, the failed-requests
\* metric goes up by one and an extension step is made.  No request is ever
\* retried more than request_max_retries times.
C26_FailureStep ==
    /\ \A id \in DOMAIN RequestsInProgress(discovery) :
           RequestsInProgress(discovery)[id].retry.count
               <= discovery.config.request_max_retries
    /\ \A entry \in RequestsQueued(discovery) :
           entry[1].retry.count <= discovery.config.request_max_retries
    /\ \A request_id \in DOMAIN RequestsInProgress(discovery),
          selection \in Selections(discovery) :
           LET request_data == RequestsInProgress(discovery)[request_id]
               retried == [request_data EXCEPT !.retry.count = @ + 1]
               dropped == [discovery EXCEPT
                              !.controller.peers_request.in_progress =
                                  map_remove(@, request_id)]
               after == handle_failed_peers_request(discovery, the_swarm,
                                                    request_id, selection)
           IN  /\ request_id \notin DOMAIN RequestsInProgress(after.self)
               /\ IF request_data.retry.count
                         < discovery.config.request_max_retries
                  THEN /\ after.self =
                              [dropped EXCEPT
                                  !.controller.peers_request.queue =
                                      @ \cup {<<retried,
                                          Option_Some(next_delay(
                                              retried.retry))>>}]
                       /\ after.swarm = the_swarm
                  ELSE /\ RequestsQueued(after.self)
                              = RequestsQueued(discovery)
                       /\ after.self.metrics.total_failed_peer_requests
                              = discovery.metrics.total_failed_peer_requests + 1
                       /\ after =
                              make_extension_step(
                                  [dropped EXCEPT
                                      !.metrics.total_failed_peer_requests =
                                          @ + 1],
                                  the_swarm, selection)

C27_TickRediscovery ==
    \A selection \in Selections(discovery) :
        LET len == Cardinality(DOMAIN discovery.outbound_peers)
            after == maybe_trigger_rediscovery(discovery, the_swarm, selection)
        IN  IF /\ discovery.config.bootstrap_protocol = "Full"
               /\ discovery.state = State_Idle
               /\ len < discovery.config.num_outbound_peers
            THEN after = initiate_extension_with_target(
                             discovery, the_swarm,
                             discovery.config.num_outbound_peers - len,
                             selection)
            ELSE after = [self |-> discovery, swarm |-> the_swarm]

\* An engine without bootstrap node, which starts Idle, is extending after it
\* lost its outbound peers: a tick has initiated the extension.
C27_Witness ==
    /\ Len(discovery.bootstrap_nodes) = 0
    /\ discovery.state.tag = "Extending"
    /\ DOMAIN discovery.outbound_peers = {}
    /\ \E peer_id \in DOMAIN discovery.discovered_peers :
           peer_id \notin DOMAIN discovery.active_connections

\* C28: when handle_peers_request has run for a requester, the requester's
\* identify information is stored in discovered_peers: the response that was
\* sent last went to a discovered peer.
C28_RequesterIdentified ==
    the_swarm.response # Option_None
        => the_swarm.response.value.peer \in DOMAIN discovery.discovered_peers

\* C29: identify on a connection that is already recorded for the peer in
\* active_connections changes nothing: handle_new_peer returns the engine
\* (discovered_peers, active_connections, outbound_peers, inbound_peers, the
\* bootstrap and relay entries, the state, the controller) and the swarm as
\* they were.
C29_DuplicateIdentifyIgnored ==
    \A peer_id \in DOMAIN discovery.active_connections,
       connection_id \in 1..NumConnections,
       listen_addrs \in IdentifyAddrLists,
       selection \in Selections(discovery) :
        LET after == handle_new_peer(discovery, the_swarm, connection_id,
                                     peer_id, [listen_addrs |-> listen_addrs],
                                     selection)
        IN  Vec_contains(discovery.active_connections[peer_id], connection_id)
                => /\ after.self = discovery
                   /\ after.swarm = the_swarm

\* A connection is recorded for its peer and still established: identify may
\* come on it again.
C29_Witness ==
    \E connection_id \in DOMAIN the_swarm.connections :
        /\ the_swarm.connections[connection_id]
               \in DOMAIN discovery.active_connections
        /\ Vec_contains(
               discovery.active_connections[
                   the_swarm.connections[connection_id]],
               connection_id)

\* C30: Discovery::new gives state Bootstrapping when enabled with a bootstrap
\* node in Kademlia mode, Extending(num_outbound_peers) when enabled with a
\* bootstrap node in Full mode and Idle when disabled or without bootstrap
\* node, and one entry with unset PeerId per configured bootstrap and relay
\* address; the engine starts as Discovery::new gives it.
C30_InitialState ==
    /\ \A bootstrap_nodes \in {<<>>, <<BOOT_ADDR>>, <<BOOT_ADDR, BOOT_ADDR_2>>},
          relay_servers \in {<<>>, <<BOOT_ADDR, PRIVATE_ADDR>>} :
           LET fresh == Discovery_new(discovery.config, bootstrap_nodes,
                                    relay_servers)
           IN  /\ fresh.state =
                      IF discovery.config.enabled /\ Len(bootstrap_nodes) > 0
                      THEN IF discovery.config.bootstrap_protocol = "Kademlia"
                           THEN State_Bootstrapping
                           ELSE State_Extending(
                                    discovery.config.num_outbound_peers)
                      ELSE State_Idle
               /\ Len(fresh.bootstrap_nodes) = Len(bootstrap_nodes)
               /\ \A i \in DOMAIN bootstrap_nodes :
                      fresh.bootstrap_nodes[i]
                          = <<Option_None, <<bootstrap_nodes[i]>> >>
               /\ Len(fresh.relay_servers) = Len(relay_servers)
               /\ \A i \in DOMAIN relay_servers :
                      fresh.relay_servers[i]
                          = <<Option_None, <<relay_servers[i]>> >>
    /\ the_swarm.next_connection_id = 1
           => /\ discovery.state =
                     IF discovery.config.enabled
                            /\ Len(discovery.bootstrap_nodes) > 0
                     THEN IF discovery.config.bootstrap_protocol = "Kademlia"
                          THEN State_Bootstrapping
                          ELSE State_Extending(
                                   discovery.config.num_outbound_peers)
                     ELSE State_Idle
              /\ \A i \in DOMAIN discovery.bootstrap_nodes :
                     /\ discovery.bootstrap_nodes[i][1] = Option_None
                     /\ Len(discovery.bootstrap_nodes[i][2]) = 1
              /\ \A i \in DOMAIN discovery.relay_servers :
                     /\ discovery.relay_servers[i][1] = Option_None
                     /\ Len(discovery.relay_servers[i][2]) = 1

\* An engine enabled in Full mode with a bootstrap node, as constructed.
C30_Witness ==
    /\ the_swarm.next_connection_id = 1
    /\ discovery.config.enabled
    /\ discovery.config.bootstrap_protocol = "Full"
    /\ Len(discovery.bootstrap_nodes) > 0
    /\ discovery.state = State_Extending(discovery.config.num_outbound_peers)

\* C31: the assertion of set_next_uncovered_range never fails: no state is
\* reached in which a call has panicked, and in every reachable state no
\* insert (of any range, empty ones included), remove or
\* remove_requests_up_to panics, whatever its arguments.
C31_AssertionNeverFails ==
    /\ ~panicked
    /\ \A request_id \in RequestIds, range \in Ranges, peer_id \in PeerIds :
           ~insert(Self, request_id, range, peer_id).panicked
    /\ \A request_id \in RequestIds : ~remove(Self, request_id).self.panicked
    /\ \A height \in Heights : ~remove_requests_up_to(Self, height).panicked

\* The assertion has been evaluated at its limit: with requests pending, the
\* next range starts right above a last validated height that
\* remove_requests_up_to has set.
C31_Witness ==
    /\ ~panicked
    /\ DOMAIN requests # {}
    /\ last_validated_height >= 1
    /\ next_uncovered_range.start = last_validated_height + 1

\* C32 as claimed: when every insert is made under a fresh request id for
\* the range next_uncovered_range() returns or for a non-empty prefix of it,
\* the pending ranges are pairwise disjoint and none ends at or below
\* last_validated_height.
C32_PlannedDisjointAndAbove ==
    /\ PairwiseDisjoint(requests)
    /\ AllEndAbove(Self)

\* C32, amended: under the same use the pending ranges are pairwise disjoint
\* and none ends at or below last_validated_height, but for a range that ends
\* at height 0 while last_validated_height is 0 (a planner created at height
\* 0, which has no predecessor, starts with last_validated_height = 0).
C32_PlannedDisjointAndAboveOrAtZero ==
    /\ PairwiseDisjoint(requests)
    /\ AllEndAboveOrAtZero(Self)

\* A planner created at height 0 holds a planned request that ends at height
\* 0, and a second one, disjoint from it.
C32_Witness ==
    /\ last_validated_height = 0
    /\ Cardinality(DOMAIN requests) >= 2
    /\ PairwiseDisjoint(requests)
    /\ \E id \in DOMAIN requests : requests[id].range.end = 0

\* C33: over pairwise disjoint pending ranges, compute_from(s) returns
\* start..=end where start is the smallest height >= s that no pending range
\* contains and end is start + max_batch_size - 1, or t - 1 when that is
\* smaller, t being the smallest start of a pending range above start; the
\* walk past the covering ranges ends after at most one step per pending range.
C33_ComputeFrom ==
    PairwiseDisjoint(requests) =>
        \A s \in Heights :
            LET range == compute_next_uncovered_range_from(Self, s)
                above == StartsAbove(requests, range.start)
            IN  /\ range.start = SmallestUncoveredFrom(requests, s)
                /\ range.end =
                       IF above = {}
                       THEN range.start + max_batch_size - 1
                       ELSE min(range.start + max_batch_size - 1,
                                Smallest(above) - 1)
                /\ advance_steps(get_ranges(Self), s)
                       <= Cardinality(DOMAIN requests)

\* Two disjoint requests are pending; from some height the walk passes both of
\* them, and from some height the range is cut short by a pending request.
C33_Witness ==
    /\ PairwiseDisjoint(requests)
    /\ \E s \in Heights : advance_steps(get_ranges(Self), s) = 2
    /\ \E s \in Heights :
           LET range == compute_next_uncovered_range_from(Self, s)
           IN  range.end < range.start + max_batch_size - 1

\* C34: insert of a range that starts after next_uncovered_range.end leaves
\* next_uncovered_range as it is; so does remove of a pending request whose
\* range starts after next_uncovered_range.end; remove of a request id that is
\* not pending returns None and changes nothing at all.
C34_NextRangeUntouched ==
    /\ \A request_id \in RequestIds, range \in Ranges, peer_id \in PeerIds :
           range.start > next_uncovered_range.end
           => /\ insert(Self, request_id, range, peer_id).next_uncovered_range
                     = next_uncovered_range
              /\ ~insert(Self, request_id, range, peer_id).panicked
    /\ \A request_id \in DOMAIN requests :
           requests[request_id].range.start > next_uncovered_range.end
           => /\ remove(Self, request_id).self.next_uncovered_range
                     = next_uncovered_range
              /\ ~remove(Self, request_id).self.panicked
    /\ \A request_id \in RequestIds \ DOMAIN requests :
           remove(Self, request_id) = [self |-> Self, result |-> Option_None]

\* A request is pending right after the next range, which it cuts short, and
\* some request id is not pending.
C34_Witness ==
    /\ RequestIds \ DOMAIN requests # {}
    /\ next_uncovered_range.end
           < next_uncovered_range.start + max_batch_size - 1
    /\ \E request_id \in DOMAIN requests :
           requests[request_id].range.start = next_uncovered_range.end + 1

\* C35: a bootstrap or relay entry only ever changes from unset to bound: in
\* every step the entries keep their number and their address lists and an
\* entry bound to a peer stays bound to it; and in every state a peer is bound
\* to at most one bootstrap entry and at most one relay entry.
C35_EntriesOnlyEverBound ==
    /\ [](\A peer_id \in DiscoveryPeers :
              /\ Cardinality(EntriesOf(discovery.bootstrap_nodes, peer_id)) <= 1
              /\ Cardinality(EntriesOf(discovery.relay_servers, peer_id)) <= 1)
    /\ [][/\ OnlyBound(discovery.bootstrap_nodes, discovery'.bootstrap_nodes)
          /\ OnlyBound(discovery.relay_servers, discovery'.relay_servers)]_vars

\* A bootstrap entry and a relay entry are bound while another bootstrap entry
\* and another relay entry are unset, and connections are still to be
\* identified.
C35_Witness ==
    /\ \E i \in DOMAIN discovery.bootstrap_nodes, j \in DOMAIN discovery.bootstrap_nodes :
           /\ discovery.bootstrap_nodes[i][1].is_some
           /\ ~discovery.bootstrap_nodes[j][1].is_some
    /\ \E i \in DOMAIN discovery.relay_servers, j \in DOMAIN discovery.relay_servers :
           /\ discovery.relay_servers[i][1].is_some
           /\ ~discovery.relay_servers[j][1].is_some
    /\ \E connection_id \in DOMAIN the_swarm.connections :
           ~Vec_contains(
               IF the_swarm.connections[connection_id]
                      \in DOMAIN discovery.active_connections
               THEN discovery.active_connections[
                        the_swarm.connections[connection_id]]
               ELSE <<>>,
               connection_id)

\* C36: when identify is processed on a connection not yet recorded, dialed
\* by us or opened by the peer, for a peer that is bound to no bootstrap entry
\* and advertises an address of a bootstrap entry with unset peer id, that
\* entry is bound to the peer afterwards.
C36_BootstrapEntryFilledByAdvertisedAddress ==
    \A connection_id \in DOMAIN the_swarm.connections,
       listen_addrs \in IdentifyAddrLists,
       selection \in Selections(discovery) :
        LET peer_id == the_swarm.connections[connection_id]
            after == handle_new_peer(discovery, the_swarm, connection_id,
                                     peer_id, [listen_addrs |-> listen_addrs],
                                     selection).self
        IN  /\ ~InSeq(connection_id, ConnectionsOf(discovery, peer_id))
            /\ EntriesOf(discovery.bootstrap_nodes, peer_id) = {}
            => \A i \in UnsetBootstrapEntries(discovery, listen_addrs) :
                   after.bootstrap_nodes[i][1] = Option_Some(peer_id)

\* C37: every address that process_received_peers hands to the dial queue
\* carries at most one p2p-circuit marker, whatever the responding peer sent.
C37_QueuedDialsAtMostOneCircuit ==
    \A addr \in QueuedDialAddrs(discovery) : CircuitMarkers(addr) <= 1

\* C38: within one extension a peer is sent at most one initial (retry count
\* 0) peers request: peers_request_peer for a peer already marked as queried
\* sends nothing and changes nothing unless the request is a retry, and every
\* request sent is tracked as in progress under its outbound request id.
C38_OneInitialRequestPerExtension ==
    /\ [](\A peer_id \in DiscoveryPeers, count \in 0..(RequestMaxRetries + 1) :
              RequestSentOnceAndTracked(discovery, the_swarm, peer_id, count))
    /\ [][InitialRequestsOncePerExtension]_vars

\* A retry to an already queried peer is in progress, and that peer, asked
\* again without retry count, is not sent anything.
C38_Witness ==
    /\ discovery.state.tag = "Extending"
    /\ \E id \in DOMAIN RequestsInProgress(discovery) :
           /\ RequestsInProgress(discovery)[id].retry.count > 0
           /\ RequestsInProgress(discovery)[id].peer_id \in Queried(discovery)
           /\ id \in DOMAIN the_swarm.sent_requests
           /\ peers_request_peer(
                  discovery, the_swarm,
                  RequestData_new(RequestsInProgress(discovery)[id].peer_id)).swarm
                  = the_swarm

\* C39: with discovery disabled the engine stays inert: the state is Idle in
\* every reachable state, whatever ticks and identifies of bootstrap peers
\* there were, and no peers request is sent or in progress.
C39_DisabledEngineInert ==
    ~is_enabled(discovery)
        => /\ discovery.state = State_Idle
           /\ DOMAIN the_swarm.sent_requests = {}
           /\ DOMAIN RequestsInProgress(discovery) = {}

\* C40: the loopback rule removes exactly the loopback addresses.  Of the
\* addresses without p2p-circuit marker, one whose IP component is neither
\* 127.0.0.1 nor ::1 is kept (it is direct or a relay candidate); a loopback
\* one is in no list when the peer also advertises an address that is not
\* loopback; and when the peer advertises nothing but loopback addresses the
\* original list is returned as direct, with no relay candidate.
C40_LoopbackRuleExact ==
    LET all_loopback ==
            \A i \in DOMAIN input_addrs : LoopbackAddr(input_addrs[i])
        some_plain ==
            \E i \in DOMAIN input_addrs :
                /\ ~LoopbackAddr(input_addrs[i])
                /\ CircuitMarkers(input_addrs[i]) = 0
    IN  /\ filtered.is_some =>
               /\ \A i \in DOMAIN input_addrs :
                      (/\ ~LoopbackAddr(input_addrs[i])
                       /\ CircuitMarkers(input_addrs[i]) = 0)
                          => \/ InSeq(input_addrs[i], filtered.value.direct)
                             \/ InSeq(input_addrs[i],
                                      filtered.value.relay_candidates)
               /\ \A i \in DOMAIN input_addrs :
                      (LoopbackAddr(input_addrs[i]) /\ some_plain)
                          => /\ ~InSeq(input_addrs[i], filtered.value.direct)
                             /\ ~InSeq(input_addrs[i],
                                       filtered.value.relay_candidates)
               /\ all_loopback
                      => /\ filtered.value.direct = input_addrs
                         /\ filtered.value.relay_candidates = <<>>
        /\ reachable.is_some =>
               /\ \A i \in DOMAIN input_addrs :
                      (LoopbackAddr(input_addrs[i]) /\ some_plain)
                          => ~InSeq(input_addrs[i], reachable.value)
               /\ all_loopback => reachable.value = input_addrs

====
